---- MODULE Spec2Model ----
(***************************************************************************)
(* A model of the document-processing backend: the DAG workflow executor  *)
(* (services/workflow_executor.py), the review queue                      *)
(* (services/review_queue_service.py, services/storage_service.py) and    *)
(* the worker task (tasks/celery_app.py).                                 *)
(***************************************************************************)
EXTENDS Integers, Sequences, FiniteSets, TLC

(***************************************************************************)
(* Bounds of the model.                                                    *)
(***************************************************************************)
\* The step ids a graph is built from.
StepIds == {"a", "b", "c"}
\* The longest depends_on list a step is added with.
MaxDeps == 2

\* max_concurrency of a WorkflowExecutor is drawn from 1..MaxConcurrency.
MaxConcurrency == 2
\* max_retries of a step is drawn from 0..MaxRetries.
MaxRetries == 1
\* burst (capacity) of the registered TokenBucketRateLimiter.
Burst == 1
\* claim_item calls that may be in flight together.
MaxClaimers == 2
\* Minutes the clock may advance.
MaxNow == 2
\* Audit entries the log may hold.
MaxAudit == 2
\* failure_threshold of a CircuitBreaker is drawn from 1..MaxThreshold.
MaxThreshold == 2
\* half_open_max_calls of a CircuitBreaker is drawn from 1..MaxProbes.
MaxProbes == 2
\* Guarded calls ("with breaker:") that may be in flight together.
MaxCalls == 2
\* Ticks time.monotonic() may advance.
MaxClock == 2
\* Coroutines that call acquire() on one TokenBucketRateLimiter.
MaxAcquirers == 2
\* Ticks the clock of the rate limiter may advance.
MaxTicks == 4
MaxEvents == 2
MaxMonClock == 3

VARIABLES
    dag,        \* WorkflowDAG: [steps, depends_on, adjacency]
    dagPc,      \* "build" while steps are added, "validated" after validate(),
                \* "sorted" after topological_sort(), "layered" after
                \* get_execution_layers(), "raised" if one of these raised
    errors,     \* the list validate() returned
    dagOut      \* what topological_sort() or get_execution_layers() returned

VARIABLES
    execPc,          \* where execute() is: idle, layer, gather, returned, raised
    max_concurrency, \* WorkflowExecutor(max_concurrency=...)
    sem,             \* free permits of self._semaphore
    tokens,          \* whole tokens in the registered limiter's bucket
    layers,          \* layers = dag.get_execution_layers()
    layerIdx,        \* index of the layer the for loop is at
    results,         \* results: step id -> StepResult (status "absent": no entry)
    step_outputs,    \* the ids that have an entry in step_outputs
    wfResult,        \* the WorkflowResult execute() returned
    stepPc,          \* where each step's _execute_step coroutine is
    max_retries,     \* step.max_retries, once the retry loop has read it
    resource_tag,    \* step.resource_tag: "gemini_api" (a limiter is registered
                     \* for it) or "none" (no tag, or none registered for it)
    attempt,         \* the retry loop's variable attempt
    retries,         \* the retry loop's variable retries
    last_error,      \* the retry loop's variable last_error
    fnCalls,         \* how many times step.fn was invoked
    failedAttempts,  \* how many attempts raised or timed out
    sleeps,          \* how many backoff sleeps the step took
    tokensTaken,     \* how many limiter tokens the step consumed
    condition,       \* what step.condition(merged_ctx) did: "unset" before it
                     \* is evaluated, then "passed" (no condition, or True),
                     \* "false" or "raised"
    permitsTaken     \* how many semaphore permits the step acquired

VARIABLES
    review_items,      \* table review_items, one row per document_id
    extracted_fields,  \* table extracted_fields, per item and field_name
    audit_log,         \* table audit_log, in insertion order
    now,               \* the clock, in minutes
    rowLock,           \* the claim transaction holding a review_items row
    claimPc,           \* position of each claim_item call
    claimArgs,         \* item_id, reviewer_id and now of each claim_item call
    claimResult,       \* what each claim_item call returned
    assignPending      \* item whose create_review_item awaits its auto-assign

VARIABLES
    documents,            \* table documents: the status of each document
    processed_documents,  \* the idempotency cache, one row per content hash
    content,              \* the content hash of each uploaded file
    workerPc,             \* position of process_document_dag_task per document
    taskRetries,          \* Celery retries the task of a document has used
    extracted,            \* the output of the extract step of a task
    taskResult            \* what the task of a document returned

VARIABLES
    breaker,              \* the CircuitBreaker: its parameters and its fields
    monotonic,            \* time.monotonic()
    callPc,               \* each guarded call: "idle", or "inside" the with block
    cbLast,               \* the last operation on the breaker and what it returned
    cbScope,              \* the last "with breaker:" step: how its body ended
                          \* (exc_type) and what the statement raised
    consecutiveFailures,  \* failures recorded since the last recorded success
                          \* and since the breaker last closed
    periodAdmits,         \* allow_request calls that returned True in the
                          \* current half-open period
    probes,               \* the calls in flight admitted in the current
                          \* half-open period
    probeSuccesses        \* successes recorded by probes of the half-open
                          \* period that last began

VARIABLES
    bucket,     \* the TokenBucketRateLimiter: _tokens and _last_refill
    limNow,     \* time.monotonic(), in ticks since the limiter was created
    acqPc,      \* each acquire(): "idle" (not called, or returned) or "sleeping"
    wakeAt,     \* when the asyncio.sleep of a sleeping acquire() is over
    granted     \* acquire() calls that have returned

VARIABLES
    submitCall, \* the last submit_review call: its arguments and how it ended
    rvReturn    \* the last call of the review queue service and what it
                \* returned

VARIABLES
    submitTx,   \* a submit_review in flight: its arguments and the now it took
    assignTx    \* an auto_assign in flight: its item and the reviewer it picked

VARIABLES
    fs,         \* the data tree: per document, what each path holds
    savePc      \* where each save_result call is

VARIABLES
    mon,        \* the MonitoringService: its window and its counters
    monClock,   \* time.time(), in ticks
    monReport   \* the last metrics reported: by which method, and docs_per_hour

VARIABLES
    subTx       \* each submit_review transaction carrying one correction

VARIABLES
    stdPc,        \* where the task that runs the standard DAG is
    stdLayerIdx,  \* the layer execute() is at
    stdResults,   \* results of that execute()
    stdOutputs,   \* the ids that have an entry in its step_outputs
    stdStepPc,    \* where each of its _execute_step coroutines is
    stdAttempt,   \* the retry loop's variable attempt of each step
    stdSem,       \* the permits its semaphore has left
    stdEffects,   \* what the steps wrote: files, cache row, review item,
                  \* metrics; and the status of the document
    stdSuccess    \* WorkflowResult.success, once execute() has returned

dagVars == <<dag, dagPc, errors, dagOut>>
execVars == <<execPc, max_concurrency, sem, tokens, layers, layerIdx, results,
              step_outputs, wfResult, stepPc, max_retries, resource_tag, attempt,
              retries, last_error, fnCalls, failedAttempts, sleeps, tokensTaken,
              condition, permitsTaken>>
rvVars == <<review_items, extracted_fields, audit_log, now, rowLock,
            claimPc, claimArgs, claimResult, assignPending>>
wkVars == <<documents, processed_documents, content, workerPc, taskRetries,
            extracted, taskResult>>
cbVars == <<breaker, monotonic, callPc, cbLast, cbScope, consecutiveFailures,
            periodAdmits, probes, probeSuccesses>>
limVars == <<bucket, limNow, acqPc, wakeAt, granted>>
txVars == <<submitTx, assignTx>>
svVars == <<fs, savePc>>
monVars == <<mon, monClock, monReport>>
stdVars == <<stdPc, stdLayerIdx, stdResults, stdOutputs, stdStepPc, stdAttempt,
             stdSem, stdEffects, stdSuccess>>
vars == <<dagVars, execVars, rvVars, wkVars, cbVars, limVars, submitCall,
          rvReturn, txVars, svVars, monVars, subTx, stdVars>>

(***************************************************************************)
(* Sequence helpers.                                                       *)
(***************************************************************************)
Range(s) == {s[i] : i \in DOMAIN s}

\* The number of entries of s that satisfy being a member of S.
RECURSIVE CountIn(_, _)
CountIn(s, S) ==
    IF s = <<>> THEN 0
    ELSE (IF Head(s) \in S THEN 1 ELSE 0) + CountIn(Tail(s), S)

(***************************************************************************)
(* WorkflowDAG                                                             *)
(***************************************************************************)
\* WorkflowDAG.__init__: no steps, empty adjacency (a defaultdict(list)).
EmptyDag ==
    [steps      |-> <<>>,
     depends_on |-> [s \in StepIds |-> <<>>],
     adjacency  |-> [s \in StepIds |-> <<>>]]

\* for dep in deps: self._adjacency[dep].append(step_id)
RECURSIVE AppendEdges(_, _, _)
AppendEdges(adj, deps, step_id) ==
    IF deps = <<>> THEN adj
    ELSE AppendEdges([adj EXCEPT ![Head(deps)] = Append(@, step_id)],
                     Tail(deps), step_id)

\* WorkflowDAG.add_step for an id that is not yet a step.
AddStepOp(g, step_id, deps) ==
    [steps      |-> Append(g.steps, step_id),
     depends_on |-> [g.depends_on EXCEPT ![step_id] = deps],
     adjacency  |-> AppendEdges(g.adjacency, deps, step_id)]

StepSet(g) == Range(g.steps)

\* The check for missing dependencies: one error per (step, dep) entry whose
\* dep is not a step, in the order of the steps and of each depends_on.
RECURSIVE MissingOfStep(_, _, _)
MissingOfStep(g, step_id, deps) ==
    IF deps = <<>> THEN <<>>
    ELSE (IF Head(deps) \notin StepSet(g)
          THEN <<[kind |-> "missing", step |-> step_id, dep |-> Head(deps)]>>
          ELSE <<>>) \o MissingOfStep(g, step_id, Tail(deps))

RECURSIVE MissingDeps(_, _)
MissingDeps(g, order) ==
    IF order = <<>> THEN <<>>
    ELSE MissingOfStep(g, Head(order), g.depends_on[Head(order)])
         \o MissingDeps(g, Tail(order))

\* in_degree[step.id] += 1 for every dep of the step that is a step.
InDegree(g) ==
    [s \in StepSet(g) |-> CountIn(g.depends_on[s], StepSet(g))]

\* The steps of in_degree 0, in dict (insertion) order.
ZeroDegree(g, indeg) == SelectSeq(g.steps, LAMBDA s : indeg[s] = 0)

\* for child in adjacency[node]: in_degree[child] -= 1; if it is 0, enqueue.
\* Returns <<in_degree, queue>>.
RECURSIVE Relax(_, _, _)
Relax(children, indeg, queue) ==
    IF children = <<>> THEN <<indeg, queue>>
    ELSE LET child == Head(children)
             d     == indeg[child] - 1
         IN  Relax(Tail(children),
                   [indeg EXCEPT ![child] = d],
                   IF d = 0 THEN Append(queue, child) ELSE queue)

\* The while-queue loop of Kahn's algorithm; returns the nodes in the order
\* they were popped.
RECURSIVE KahnLoop(_, _, _, _)
KahnLoop(g, queue, indeg, order) ==
    IF queue = <<>> THEN order
    ELSE LET node == Head(queue)
             r    == Relax(g.adjacency[node], indeg, Tail(queue))
         IN  KahnLoop(g, r[2], r[1], Append(order, node))

KahnOrder(g) == KahnLoop(g, ZeroDegree(g, InDegree(g)), InDegree(g), <<>>)

\* A validate() that only checks that the graph has a step.
ValidateStepsOnly(g) ==
    IF g.steps = <<>> THEN <<[kind |-> "empty"]>> ELSE <<>>

\* A validate() without its cycle detection.
ValidateNoCycleCheck(g) ==
    IF g.steps = <<>> THEN <<[kind |-> "empty"]>>
    ELSE MissingDeps(g, g.steps)

\* WorkflowDAG.validate
Validate(g) ==
    IF g.steps = <<>> THEN <<[kind |-> "empty"]>>
    ELSE LET missing == MissingDeps(g, g.steps)
         IN  IF missing # <<>> THEN missing
             ELSE LET visited == Len(KahnOrder(g))
                  IN  IF visited # Len(g.steps)
                      THEN <<[kind |-> "cycle", visited |-> visited,
                              total |-> Len(g.steps)]>>
                      ELSE <<>>

(***************************************************************************)
(* Building and validating a graph.                                        *)
(***************************************************************************)
DepLists == UNION {[1..n -> StepIds] : n \in 0..MaxDeps}

DagInit ==
    /\ dag = EmptyDag
    /\ dagPc = "build"
    /\ errors = <<>>
    /\ dagOut = <<>>

\* dag.add_step(step_id, fn, depends_on=deps); a duplicate id raises
\* ValueError and leaves the graph as it was.
AddStep(step_id, deps) ==
    /\ dagPc = "build"
    /\ step_id \notin StepSet(dag)
    /\ dag' = AddStepOp(dag, step_id, deps)
    /\ UNCHANGED <<dagPc, errors, dagOut>>

\* errors = dag.validate()
CallValidate ==
    /\ dagPc = "build"
    /\ errors' = Validate(dag)
    /\ dagPc' = "validated"
    /\ UNCHANGED <<dag, dagOut>>

(***************************************************************************)
(* WorkflowDAG.get_execution_layers                                        *)
(***************************************************************************)
\* for node in current_layer: for child in adjacency[node]: decrement, and
\* collect the children that reach 0 in next_layer. Returns <<in_degree, next_layer>>.
\* A next layer that takes every child of the current layer, whatever its
\* in_degree has come down to.
RECURSIVE RelaxLayerAnyChild(_, _, _, _)
RelaxLayerAnyChild(g, current, indeg, next_layer) ==
    IF current = <<>> THEN <<indeg, next_layer>>
    ELSE RelaxLayerAnyChild(g, Tail(current), indeg,
                            next_layer \o g.adjacency[Head(current)])

RECURSIVE RelaxLayer(_, _, _, _)
RelaxLayer(g, current, indeg, next_layer) ==
    IF current = <<>> THEN <<indeg, next_layer>>
    ELSE LET r == Relax(g.adjacency[Head(current)], indeg, next_layer)
         IN  RelaxLayer(g, Tail(current), r[1], r[2])

RECURSIVE LayerLoop(_, _, _, _)
LayerLoop(g, current, indeg, acc) ==
    IF current = <<>> THEN acc
    ELSE LET r == RelaxLayer(g, current, indeg, <<>>)
         IN  LayerLoop(g, r[2], r[1], Append(acc, current))

ExecutionLayers(g) ==
    LayerLoop(g, ZeroDegree(g, InDegree(g)), InDegree(g), <<>>)

\* WorkflowDAG.topological_sort past its validation: Kahn's algorithm,
\* returning the nodes in the order they leave the queue.
TopologicalSort(g) ==
    KahnLoop(g, ZeroDegree(g, InDegree(g)), InDegree(g), <<>>)

\* order = dag.topological_sort(); ValueError for an invalid graph.
CallTopologicalSort ==
    /\ dagPc = "build"
    /\ IF Validate(dag) # <<>>
       THEN dagPc' = "raised" /\ dagOut' = dagOut
       ELSE dagPc' = "sorted" /\ dagOut' = TopologicalSort(dag)
    /\ UNCHANGED <<dag, errors>>

\* layers = dag.get_execution_layers(); ValueError for an invalid graph.
CallGetExecutionLayers ==
    /\ dagPc = "build"
    /\ IF Validate(dag) # <<>>
       THEN dagPc' = "raised" /\ dagOut' = dagOut
       ELSE dagPc' = "layered" /\ dagOut' = ExecutionLayers(dag)
    /\ UNCHANGED <<dag, errors>>

DagNext ==
    \/ \E s \in StepIds, deps \in DepLists : AddStep(s, deps)
    \/ CallValidate
    \/ CallTopologicalSort
    \/ CallGetExecutionLayers

(***************************************************************************)
(* WorkflowExecutor                                                        *)
(***************************************************************************)
Terminal == {"completed", "failed", "skipped"}

\* results.get(d, StepResult(d, StepStatus.PENDING)) of a step with no entry.
NoResult ==
    [status |-> "absent", error |-> "none", retries_used |-> 0,
     duration_seconds |-> "zero"]

\* StepResult(...) without duration_seconds, which defaults to 0.0, or with
\* duration_seconds=0.0.
StepResult(status, error, retries_used) ==
    [status |-> status, error |-> error, retries_used |-> retries_used,
     duration_seconds |-> "zero"]

\* duration_seconds=round(time.monotonic() - t0, 3)
Timed(result) == [result EXCEPT !.duration_seconds = "measured"]

\* The graphs execute() is called with: up to three steps added in the order
\* a, b, c, each depending on any set of ids (unknown ids, itself and cycles
\* included).
AllSteps == <<"a", "b", "c">>
SeqOfSet(S) == SelectSeq(AllSteps, LAMBDA x : x \in S)

RECURSIVE BuildDag(_, _, _)
BuildDag(g, order, deps) ==
    IF order = <<>> THEN g
    ELSE BuildDag(AddStepOp(g, Head(order), SeqOfSet(deps[Head(order)])),
                  Tail(order), deps)

ExecDags ==
    {BuildDag(EmptyDag, SubSeq(AllSteps, 1, n), deps) :
        n \in 0..Len(AllSteps), deps \in [StepIds -> SUBSET StepIds]}

\* The tags self._rate_limiters has a TokenBucketRateLimiter for.
RateLimiters == {"gemini_api"}

\* The resource tags of the steps: one step is rate-limited, as in
\* build_document_processing_dag, where only extract has a resource_tag; or
\* none is, and one step has a tag ("database") no limiter is registered for.
TagConfigs ==
    {[s \in StepIds |-> IF s = "a" THEN "database" ELSE "none"],
     [s \in StepIds |-> IF s = "b" THEN "gemini_api" ELSE "none"]}

\* The executor and its step bookkeeping before execute() is called.
ExecFresh(mc) ==
    /\ execPc = "idle"
    /\ max_concurrency = mc
    /\ sem = mc
    /\ tokens = Burst
    /\ layers = <<>>
    /\ layerIdx = 0
    /\ results = [s \in StepIds |-> NoResult]
    /\ step_outputs = {}
    /\ wfResult = [success |-> FALSE, completed_count |-> 0,
                   failed_count |-> 0, skipped_count |-> 0]
    /\ stepPc = [s \in StepIds |-> "idle"]
    /\ max_retries = [s \in StepIds |-> 0]
    /\ attempt = [s \in StepIds |-> 0]
    /\ retries = [s \in StepIds |-> 0]
    /\ last_error = [s \in StepIds |-> "none"]
    /\ fnCalls = [s \in StepIds |-> 0]
    /\ failedAttempts = [s \in StepIds |-> 0]
    /\ sleeps = [s \in StepIds |-> 0]
    /\ tokensTaken = [s \in StepIds |-> 0]
    /\ condition = [s \in StepIds |-> "unset"]
    /\ permitsTaken = [s \in StepIds |-> 0]

ExecIdle == ExecFresh(1) /\ resource_tag = [s \in StepIds |-> "none"]

\* WorkflowExecutor.__init__ and the graph handed to execute().
ExecInit ==
    /\ dag \in ExecDags
    /\ dagPc = "build"
    /\ errors = <<>>
    /\ dagOut = <<>>
    /\ \E mc \in 1..MaxConcurrency : ExecFresh(mc)
    /\ resource_tag \in TagConfigs

stepLocals == <<max_retries, attempt, retries, last_error,
                fnCalls, failedAttempts, sleeps, tokensTaken>>
stepHist == <<condition, permitsTaken>>
execCtl == <<execPc, max_concurrency, resource_tag, layers, layerIdx, wfResult>>

\* errors = dag.validate() at the head of execute().
ExecuteErrors(g) == Validate(g)

\* errors = self.validate() at the head of get_execution_layers().
LayersErrors(g) == Validate(g)

\* execute(): the graph is invalid, ValueError is raised, by execute() itself
\* or by the get_execution_layers() it calls.
ExecuteInvalid ==
    /\ execPc = "idle"
    /\ ExecuteErrors(dag) # <<>> \/ LayersErrors(dag) # <<>>
    /\ execPc' = "raised"
    /\ UNCHANGED <<dagVars, max_concurrency, resource_tag, sem, tokens, layers, layerIdx,
                   results, step_outputs, wfResult, stepPc, stepLocals, stepHist>>

\* execute(): the graph is valid; layers = dag.get_execution_layers().
ExecuteValid ==
    /\ execPc = "idle"
    /\ ExecuteErrors(dag) = <<>>
    /\ LayersErrors(dag) = <<>>
    /\ layers' = ExecutionLayers(dag)
    /\ layerIdx' = 1
    /\ execPc' = "layer"
    /\ UNCHANGED <<dagVars, max_concurrency, resource_tag, sem, tokens, results,
                   step_outputs, wfResult, stepPc, stepLocals, stepHist>>

\* A dependency check that never finds a failed dependency.
DepFailedNever(s) == FALSE

\* dep_failed: some dependency's result is FAILED.
DepFailed(s) ==
    \E d \in Range(dag.depends_on[s]) : results[d].status \in {"failed"}

\* The body of "for layer in layers" up to the gather: every step of the
\* layer with a failed dependency is recorded SKIPPED, the others get a
\* coroutine. Nothing is awaited in between.
LaunchLayer ==
    /\ execPc = "layer"
    /\ layerIdx <= Len(layers)
    /\ LET layer == Range(layers[layerIdx])
       IN  /\ results' = [s \in StepIds |->
                            IF s \in layer /\ DepFailed(s)
                            THEN StepResult("skipped", "Dependency failed", 0)
                            ELSE results[s]]
           /\ stepPc' = [s \in StepIds |->
                            IF s \in layer /\ ~DepFailed(s)
                            THEN "launched" ELSE stepPc[s]]
    /\ execPc' = "gather"
    /\ UNCHANGED <<dagVars, max_concurrency, resource_tag, sem, tokens, layers, layerIdx,
                   step_outputs, wfResult, stepLocals, stepHist>>

\* A gather that does not wait for its tasks.
LayerDrainedNoWait == TRUE

\* await asyncio.gather(*tasks) has returned: every coroutine of the layer
\* has finished.
LayerDrained ==
    \A s \in Range(layers[layerIdx]) : stepPc[s] \in {"idle", "done"}

\* The gather returns and the for loop moves to the next layer.
GatherReturns ==
    /\ execPc = "gather"
    /\ LayerDrained
    /\ layerIdx' = layerIdx + 1
    /\ execPc' = "layer"
    /\ UNCHANGED <<dagVars, max_concurrency, resource_tag, sem, tokens, layers, results,
                   step_outputs, wfResult, stepPc, stepLocals, stepHist>>

\* A count that takes every result, whatever its status.
CountStatusAny(st) == Cardinality({s \in StepIds : results[s].status \in Terminal})

\* sum(1 for r in results.values() if r.status == st)
CountStatus(st) == Cardinality({s \in StepIds : results[s].status = st})

\* The for loop is over: the counts are taken and the WorkflowResult returned.
Finish ==
    /\ execPc = "layer"
    /\ layerIdx > Len(layers)
    /\ wfResult' = [success |-> CountStatus("failed") = 0,
                    completed_count |-> CountStatus("completed"),
                    failed_count |-> CountStatus("failed"),
                    skipped_count |-> CountStatus("skipped")]
    /\ execPc' = "returned"
    /\ UNCHANGED <<dagVars, max_concurrency, resource_tag, sem, tokens, layers, layerIdx,
                   results, step_outputs, stepPc, stepLocals, stepHist>>

(***************************************************************************)
(* WorkflowExecutor._execute_step, one coroutine per launched step.  The   *)
(* condition and the max_retries of a step, which the coroutine reads once, *)
(* are drawn where it reads them.                                          *)
(***************************************************************************)
\* merged_ctx = {**context, "step_outputs": step_outputs}: the keys the caller
\* supplied (process_document_dag_task passes file_path) and step_outputs.
ContextKeys == {"file_path"}
MergedCtx ==
    [keys |-> ContextKeys \cup {"step_outputs"}, step_outputs |-> step_outputs]

\* A step that goes on to the semaphore although its condition returned False.
ConditionFalseRuns(s) ==
    /\ stepPc[s] = "launched"
    /\ condition' = [condition EXCEPT ![s] = "false"]
    /\ stepPc' = [stepPc EXCEPT ![s] = "sem"]
    /\ UNCHANGED <<dagVars, execCtl, sem, tokens, results, step_outputs,
                   stepLocals, permitsTaken>>

\* step.condition(merged_ctx) returned False: SKIPPED, zero duration.
ConditionFalse(s) ==
    /\ stepPc[s] = "launched"
    /\ condition' = [condition EXCEPT ![s] = "false"]
    /\ results' = [results EXCEPT ![s] = StepResult("skipped", "none", 0)]
    /\ stepPc' = [stepPc EXCEPT ![s] = "done"]
    /\ UNCHANGED <<dagVars, execCtl, sem, tokens, step_outputs, stepLocals,
                   permitsTaken>>

\* step.condition(merged_ctx) raised: FAILED, "Condition evaluation failed",
\* whatever the max_retries of the step.
ConditionRaises(s) ==
    /\ stepPc[s] = "launched"
    /\ \E mr \in 0..MaxRetries : max_retries' = [max_retries EXCEPT ![s] = mr]
    /\ results' = [results EXCEPT ![s] =
                      StepResult("failed", "Condition evaluation failed", 0)]
    /\ condition' = [condition EXCEPT ![s] = "raised"]
    /\ stepPc' = [stepPc EXCEPT ![s] = "done"]
    /\ UNCHANGED <<dagVars, execCtl, sem, tokens, step_outputs, attempt, retries,
                   last_error, fnCalls, failedAttempts, sleeps, tokensTaken,
                   permitsTaken>>

\* No condition, or it returned True: the coroutine goes on to the semaphore.
ConditionPasses(s) ==
    /\ stepPc[s] = "launched"
    /\ condition' = [condition EXCEPT ![s] = "passed"]
    /\ stepPc' = [stepPc EXCEPT ![s] = "sem"]
    /\ UNCHANGED <<dagVars, execCtl, sem, tokens, results, step_outputs,
                   stepLocals, permitsTaken>>

\* A semaphore that hands out a permit it does not have.
PermitFreeAlways == TRUE

\* asyncio.Semaphore.acquire returns only while the counter is positive.
PermitFree == sem > 0

\* async with self._semaphore: a permit is taken.
AcquirePermit(s) ==
    /\ stepPc[s] = "sem"
    /\ PermitFree
    /\ sem' = sem - 1
    /\ permitsTaken' = [permitsTaken EXCEPT ![s] = @ + 1]
    /\ stepPc' = [stepPc EXCEPT ![s] = "limiter"]
    /\ UNCHANGED <<dagVars, execCtl, tokens, results, step_outputs, stepLocals,
                   condition>>

\* The retry loop is entered: retries = 0, last_error = None, and
\* range(step.max_retries + 1) starts with attempt 0, which invokes fn.
EnterRetryLoop(s, mr) ==
    /\ max_retries' = [max_retries EXCEPT ![s] = mr]
    /\ attempt' = [attempt EXCEPT ![s] = 0]
    /\ retries' = [retries EXCEPT ![s] = 0]
    /\ last_error' = [last_error EXCEPT ![s] = "none"]
    /\ fnCalls' = [fnCalls EXCEPT ![s] = @ + 1]
    /\ stepPc' = [stepPc EXCEPT ![s] = "fn"]

\* A step that never finds a limiter for its resource_tag.
HasLimiterNever(s) == FALSE

\* if step.resource_tag and step.resource_tag in self._rate_limiters
HasLimiter(s) == resource_tag[s] # "none" /\ resource_tag[s] \in RateLimiters

\* The step has no resource_tag, or no limiter is registered for it.
SkipLimiter(s) ==
    /\ stepPc[s] = "limiter"
    /\ ~HasLimiter(s)
    /\ \E mr \in 0..MaxRetries : EnterRetryLoop(s, mr)
    /\ UNCHANGED <<dagVars, execCtl, sem, tokens, results, step_outputs,
                   failedAttempts, sleeps, tokensTaken, stepHist>>

\* self._tokens = min(self._burst, self._tokens + elapsed * self._rate) for
\* an elapsed time that has refilled between 0 and burst whole tokens.
Refilled(refill) == IF tokens + refill > Burst THEN Burst ELSE tokens + refill

\* An acquire that returns without taking the token away.
ConsumedNothing(refill) == Refilled(refill)

\* self._tokens -= 1.0
Consumed(refill) == Refilled(refill) - 1

\* TokenBucketRateLimiter.acquire refills the bucket, finds a token and
\* consumes it.  (With no token it sleeps 1/rate and tries again.)
TakeToken(s) ==
    /\ stepPc[s] = "limiter"
    /\ HasLimiter(s)
    /\ \E refill \in 0..Burst :
          /\ Refilled(refill) >= 1
          /\ tokens' = Consumed(refill)
    /\ tokensTaken' = [tokensTaken EXCEPT ![s] = @ + 1]
    /\ \E mr \in 0..MaxRetries : EnterRetryLoop(s, mr)
    /\ UNCHANGED <<dagVars, execCtl, sem, results, step_outputs,
                   failedAttempts, sleeps, stepHist>>

\* _execute_step returns: its local variables are gone.
FrameDropped(s) ==
    /\ attempt' = [attempt EXCEPT ![s] = 0]
    /\ retries' = [retries EXCEPT ![s] = 0]
    /\ last_error' = [last_error EXCEPT ![s] = "none"]

\* retries_used=retries of a successful step: retries is what the last
\* failed attempt assigned (retries = attempt), 0 if none failed.
RetriesUsedOnSuccess(s) == retries[s]

\* An attempt whose output is not put into step_outputs.
StoreOutputDropped(s) == step_outputs

\* step_outputs[step_id] = output
StoreOutput(s) == step_outputs \cup {s}

\* A with block that leaves without giving its permit back.
PermitKept == sem

\* async with self._semaphore is left (by return or at the end of the
\* block): the permit goes back.
PermitReleased == sem + 1

\* The attempt returns: the output is stored, the result is COMPLETED, the
\* permit is released.
FnReturns(s) ==
    /\ stepPc[s] = "fn"
    /\ step_outputs' = StoreOutput(s)
    /\ results' = [results EXCEPT ![s] =
                      Timed(StepResult("completed", "none", RetriesUsedOnSuccess(s)))]
    /\ sem' = PermitReleased
    /\ stepPc' = [stepPc EXCEPT ![s] = "done"]
    /\ FrameDropped(s)
    /\ UNCHANGED <<dagVars, execCtl, tokens, max_retries, fnCalls,
                   failedAttempts, sleeps, tokensTaken, stepHist>>

\* A retry loop that gives up after the first failed attempt.
MoreAttemptsNever(s) == FALSE

\* if attempt < step.max_retries
MoreAttempts(s) == attempt[s] < max_retries[s]

\* The attempt raises (kind "raised") or runs into asyncio.wait_for's timeout
\* (kind "timeout"): retries = attempt; a backoff sleep follows if attempts
\* are left, else the result is FAILED and the permit is released.
FnFails(s, kind) ==
    /\ stepPc[s] = "fn"
    /\ failedAttempts' = [failedAttempts EXCEPT ![s] = @ + 1]
    /\ IF MoreAttempts(s)
       THEN /\ last_error' = [last_error EXCEPT ![s] = kind]
            /\ retries' = [retries EXCEPT ![s] = attempt[s]]
            /\ sleeps' = [sleeps EXCEPT ![s] = @ + 1]
            /\ stepPc' = [stepPc EXCEPT ![s] = "backoff"]
            /\ UNCHANGED <<results, sem, attempt>>
       ELSE /\ results' = [results EXCEPT ![s] =
                              Timed(StepResult("failed", kind, attempt[s]))]
            /\ sem' = PermitReleased
            /\ stepPc' = [stepPc EXCEPT ![s] = "done"]
            /\ FrameDropped(s)
            /\ UNCHANGED sleeps
    /\ UNCHANGED <<dagVars, execCtl, tokens, step_outputs, max_retries,
                   fnCalls, tokensTaken, stepHist>>

FnRaises(s) == FnFails(s, "raised")
FnTimesOut(s) == FnFails(s, "timeout")

\* await asyncio.sleep(delay) is over: the next attempt invokes fn.
BackoffOver(s) ==
    /\ stepPc[s] = "backoff"
    /\ attempt' = [attempt EXCEPT ![s] = @ + 1]
    /\ fnCalls' = [fnCalls EXCEPT ![s] = @ + 1]
    /\ stepPc' = [stepPc EXCEPT ![s] = "fn"]
    /\ UNCHANGED <<dagVars, execCtl, sem, tokens, results, step_outputs,
                   max_retries, retries, last_error,
                   failedAttempts, sleeps, tokensTaken, stepHist>>

ExecNext ==
    \/ ExecuteInvalid
    \/ ExecuteValid
    \/ LaunchLayer
    \/ GatherReturns
    \/ Finish
    \/ \E s \in StepIds : ConditionFalse(s)
    \/ \E s \in StepIds : ConditionRaises(s)
    \/ \E s \in StepIds : ConditionPasses(s)
    \/ \E s \in StepIds : AcquirePermit(s)
    \/ \E s \in StepIds : SkipLimiter(s)
    \/ \E s \in StepIds : TakeToken(s)
    \/ \E s \in StepIds : FnReturns(s)
    \/ \E s \in StepIds : FnRaises(s)
    \/ \E s \in StepIds : FnTimesOut(s)
    \/ \E s \in StepIds : BackoffOver(s)



(***************************************************************************)
(* The review queue: tables review_items, extracted_fields and audit_log.  *)
(* A review item is identified by its document (document_id is UNIQUE).    *)
(***************************************************************************)
ItemIds == {"d1", "d2"}
FieldNames == {"f1"}
Values == {"v1", "v2"}
Reviewers == {"r1", "r2"}
\* The documents a worker materializes a review item for.
Documents == {"d1"}
Claimers == 1..MaxClaimers

\* settings.reviewer_roster and settings.claim_expiry_minutes are read by the
\* services; class Settings does not declare them.
Roster == <<"r1", "r2">>
ClaimExpiryMinutes == 1
SlaDefaultHours == 24
\* max_retries of the Celery task (settings.max_retries).
CeleryMaxRetries == 3

Null == <<>>
At(t) == <<t>>

NoItem ==
    [status |-> "absent", assigned_to |-> "none", claimed_at |-> Null,
     sla_deadline |-> Null, completed_at |-> Null]

NoField ==
    [present |-> FALSE, value |-> "none", locked |-> FALSE,
     manually_corrected |-> FALSE, corrected_at |-> Null,
     corrected_by |-> "none"]

NewField(v) ==
    [present |-> TRUE, value |-> v, locked |-> FALSE,
     manually_corrected |-> FALSE, corrected_at |-> Null,
     corrected_by |-> "none"]

AuditEntry(item_id, action, actor, field_name) ==
    [item_id |-> item_id, action |-> action, actor |-> actor,
     field_name |-> field_name, old_value |-> "none", new_value |-> "none"]

\* _audit(..., old_value=..., new_value=...)
Valued(entry, old_value, new_value) ==
    [entry EXCEPT !.old_value = old_value, !.new_value = new_value]

NoReturn == [op |-> "none", value |-> 0]

NoClaimArgs == [item_id |-> "none", reviewer_id |-> "none", now |-> 0]

\* The empty database, no call in flight.
RvIdle ==
    /\ review_items = [i \in ItemIds |-> NoItem]
    /\ extracted_fields = [i \in ItemIds |-> [f \in FieldNames |-> NoField]]
    /\ audit_log = <<>>
    /\ now = 0
    /\ rowLock = [i \in ItemIds |-> 0]
    /\ claimPc = [p \in Claimers |-> "idle"]
    /\ claimArgs = [p \in Claimers |-> NoClaimArgs]
    /\ claimResult = [p \in Claimers |-> "none"]
    /\ assignPending = "none"

claimVars == <<claimPc, claimArgs, claimResult>>

Tick ==
    /\ now < MaxNow
    /\ now' = now + 1
    /\ UNCHANGED <<dagVars, execVars, review_items, extracted_fields,
                   audit_log, rowLock, claimVars, assignPending>>

(* claim_item *)
\* A claim that leaves the SLA deadline of the row as it was.
ClaimedKeepsDeadline(item, reviewer_id, t) ==
    [item EXCEPT !.status = "in_review",
                 !.assigned_to = reviewer_id,
                 !.claimed_at = At(t)]

\* The row claim_item writes when its UPDATE matched.
Claimed(item, reviewer_id, t) ==
    [item EXCEPT !.status = "in_review",
                 !.assigned_to = reviewer_id,
                 !.claimed_at = At(t),
                 !.sla_deadline = At(t + SlaDefaultHours * 60)]

ClaimBegin(p, item_id, reviewer_id) ==
    /\ claimPc[p] = "idle"
    /\ claimPc' = [claimPc EXCEPT ![p] = "update"]
    /\ claimArgs' = [claimArgs EXCEPT ![p] =
           [item_id |-> item_id, reviewer_id |-> reviewer_id, now |-> now]]
    /\ UNCHANGED <<dagVars, execVars, review_items, extracted_fields,
                   audit_log, now, rowLock, claimResult, assignPending>>

\* A claim that matches the row whatever its status.
ClaimMatchesAnyStatus(item_id) == review_items[item_id].status # "absent"

\* WHERE id = $5 AND status = 'pending'
ClaimMatches(item_id) == review_items[item_id].status = "pending"

\* The UPDATE: it waits while another transaction holds the row, then
\* evaluates its WHERE clause on the committed row; with no row updated the
\* call returns None.
ClaimUpdate(p) ==
    LET item_id == claimArgs[p].item_id IN
    /\ claimPc[p] = "update"
    /\ rowLock[item_id] = 0
    /\ IF ClaimMatches(item_id)
       THEN /\ rowLock' = [rowLock EXCEPT ![item_id] = p]
            /\ claimPc' = [claimPc EXCEPT ![p] = "audit"]
            /\ UNCHANGED claimResult
       ELSE /\ claimPc' = [claimPc EXCEPT ![p] = "returned"]
            /\ claimResult' = [claimResult EXCEPT ![p] = "None"]
            /\ UNCHANGED rowLock
    /\ UNCHANGED <<dagVars, execVars, review_items, extracted_fields,
                   audit_log, now, claimArgs, assignPending>>

\* The audit insert and the commit: the row and the entry become visible.
ClaimCommit(p) ==
    LET a == claimArgs[p] IN
    /\ claimPc[p] = "audit"
    /\ review_items' = [review_items EXCEPT ![a.item_id] =
           Claimed(@, a.reviewer_id, a.now)]
    /\ audit_log' = Append(audit_log,
           AuditEntry(a.item_id, "start_review", a.reviewer_id, "none"))
    /\ rowLock' = [rowLock EXCEPT ![a.item_id] = 0]
    /\ claimPc' = [claimPc EXCEPT ![p] = "get"]
    /\ UNCHANGED <<dagVars, execVars, extracted_fields, now, claimArgs,
                   claimResult, assignPending>>

\* return await self.get_item(item_id)
ClaimReturn(p) ==
    /\ claimPc[p] = "get"
    /\ claimPc' = [claimPc EXCEPT ![p] = "returned"]
    /\ claimResult' = [claimResult EXCEPT ![p] =
           IF review_items[claimArgs[p].item_id].status = "absent"
           THEN "None" ELSE "item"]
    /\ UNCHANGED <<dagVars, execVars, review_items, extracted_fields,
                   audit_log, now, rowLock, claimArgs, assignPending>>

\* An audit that keeps one entry per item: it writes over the last entry
\* when that entry is of the same item.
AuditUpsertsPerItem(log, entry) ==
    IF log # <<>> /\ log[Len(log)].item_id = entry.item_id
    THEN [log EXCEPT ![Len(log)] = entry]
    ELSE Append(log, entry)

\* _audit: INSERT INTO audit_log (...) VALUES (...)
Audit(log, entry) == Append(log, entry)

\* claim_item run with no other transaction on the row: one atomic call.
ClaimItem(item_id, reviewer_id) ==
    /\ rowLock[item_id] = 0
    /\ ClaimMatches(item_id)
    /\ review_items' = [review_items EXCEPT ![item_id] =
           Claimed(@, reviewer_id, now)]
    /\ audit_log' = Audit(audit_log,
           AuditEntry(item_id, "start_review", reviewer_id, "none"))
    /\ UNCHANGED <<dagVars, execVars, extracted_fields, now, rowLock,
                   claimVars, assignPending>>

(* StorageService.create_review_item *)
\* field_confidences of an ExtractionResult: a value per field the
\* extraction reports.
FieldConfidences == [FieldNames -> Values \cup {"missing"}]

\* INSERT ... ON CONFLICT (document_id) DO UPDATE SET priority, sla_deadline
Upsert(item) ==
    IF item.status = "absent"
    THEN [NoItem EXCEPT !.status = "pending"]
    ELSE [item EXCEPT !.sla_deadline = Null]

\* DELETE FROM extracted_fields WHERE review_item_id = %s AND locked = FALSE
SurvivesDelete(row) == row.present /\ row.locked

\* The delete, then one INSERT per reported field WHERE NOT EXISTS a locked
\* row of that name.
Rematerialize(fields, fcs) ==
    [f \in FieldNames |->
        LET kept == IF SurvivesDelete(fields[f]) THEN fields[f] ELSE NoField
        IN  IF fcs[f] = "missing" \/ (kept.present /\ kept.locked)
            THEN kept
            ELSE NewField(fcs[f])]

\* The first transaction of create_review_item, up to its commit.
CreateReviewItem(doc, fcs) ==
    /\ assignPending = "none"
    /\ rowLock[doc] = 0
    /\ review_items' = [review_items EXCEPT ![doc] = Upsert(@)]
    /\ extracted_fields' = [extracted_fields EXCEPT ![doc] = Rematerialize(@, fcs)]
    /\ assignPending' = doc
    /\ UNCHANGED <<dagVars, execVars, audit_log, now, rowLock, claimVars>>

\* COUNT(*) of the pending and in_review items assigned to a reviewer.
Workload(r) ==
    Cardinality({i \in ItemIds :
        /\ review_items[i].status \in {"pending", "in_review"}
        /\ review_items[i].assigned_to = r})

MinLoad == CHOOSE m \in {Workload(r) : r \in Range(Roster)} :
               \A r \in Range(Roster) : m <= Workload(r)

Tied == SelectSeq(Roster, LAMBDA r : Workload(r) = MinLoad)

\* _auto_assign_least_loaded: the tie is broken by a shared counter, so any
\* tied reviewer may be picked; the audit row is inserted whether or not the
\* UPDATE matched.
AutoAssignLeastLoaded ==
    /\ assignPending # "none"
    /\ rowLock[assignPending] = 0
    /\ Len(audit_log) < MaxAudit
    /\ \E idx \in 1..Len(Tied) :
          LET reviewer == Tied[idx] IN
          /\ review_items' = [review_items EXCEPT ![assignPending] =
                 IF @.status = "pending"
                 THEN [@ EXCEPT !.assigned_to = reviewer] ELSE @]
          /\ audit_log' = Append(audit_log,
                 AuditEntry(assignPending, "auto_assign", reviewer, "none"))
    /\ assignPending' = "none"
    /\ UNCHANGED <<dagVars, execVars, extracted_fields, now, rowLock, claimVars>>

(* ReviewQueueService.auto_assign *)
AutoAssign(item_id) ==
    /\ Len(Roster) > 0
    /\ rowLock[item_id] = 0
    /\ review_items[item_id].status = "pending"
    /\ Len(audit_log) < MaxAudit
    /\ review_items' = [review_items EXCEPT ![item_id].assigned_to = Tied[1]]
    /\ audit_log' = Append(audit_log,
           AuditEntry(item_id, "auto_assign", Tied[1], "none"))
    /\ UNCHANGED <<dagVars, execVars, extracted_fields, now, rowLock,
                   claimVars, assignPending>>

(* ReviewQueueService.release_expired_claims *)
\* A release of every item in review, whenever it was claimed.
ExpiredWhateverAge(item) == item.status = "in_review"

Expired(item) ==
    /\ item.status = "in_review"
    /\ item.claimed_at # Null
    /\ item.claimed_at[1] < now - ClaimExpiryMinutes

\* A release that leaves the SLA deadline of the row as it was.
ReleasedKeepsDeadline(item) ==
    [item EXCEPT !.status = "pending",
                 !.assigned_to = "none",
                 !.claimed_at = Null]

\* SET status = 'pending', assigned_to = NULL, claimed_at = NULL,
\*     sla_deadline = NULL
Released(item) ==
    [item EXCEPT !.status = "pending",
                 !.assigned_to = "none",
                 !.claimed_at = Null,
                 !.sla_deadline = Null]

ReleaseExpiredClaims ==
    /\ review_items' = [i \in ItemIds |->
           IF Expired(review_items[i])
           THEN Released(review_items[i])
           ELSE review_items[i]]
    /\ UNCHANGED <<dagVars, execVars, extracted_fields, audit_log, now,
                   rowLock, claimVars, assignPending>>

(* ReviewQueueService.submit_review *)
Corrections == FieldNames \X Values

\* submission.corrections, in the order the dict is iterated.
CorrectionLists ==
    {<<>>} \cup {<<c>> : c \in Corrections}
           \cup {l \in {<<c, d>> : c \in Corrections, d \in Corrections} :
                     l[1][1] # l[2][1]}

\* action_to_status
StatusOf(action) ==
    CASE action = "approve" -> "approved"
      [] action = "correct" -> "corrected"
      [] action = "reject"  -> "rejected"

\* UPDATE review_items SET status = $1, completed_at = $2 WHERE id = $3
Completed(item, action, t) ==
    [item EXCEPT !.status = StatusOf(action), !.completed_at = At(t)]

\* A lock check that skips only the fields with no row.
CorrectionSkippedIfMissing(row) == ~row.present

\* if row is None: continue; if row["locked"]: continue
CorrectionSkipped(row) == ~row.present \/ row.locked

\* The corrections loop: each correction of an unlocked row sets its value,
\* locks it and appends a correction entry.
RECURSIVE ApplyCorrections(_, _, _, _, _)
ApplyCorrections(fields, log, corrections, item_id, reviewer_id) ==
    IF corrections = <<>> THEN [fields |-> fields, log |-> log]
    ELSE LET c == Head(corrections)
             row == fields[c[1]]
         IN  IF CorrectionSkipped(row)
             THEN ApplyCorrections(fields, log, Tail(corrections), item_id, reviewer_id)
             ELSE ApplyCorrections(
                      [fields EXCEPT ![c[1]] =
                          [row EXCEPT !.value = c[2],
                                      !.manually_corrected = TRUE,
                                      !.corrected_at = At(now),
                                      !.corrected_by = reviewer_id,
                                      !.locked = TRUE]],
                      Append(log, Valued(AuditEntry(item_id, "correction",
                                                    reviewer_id, c[1]),
                                         row.value, c[2])),
                      Tail(corrections), item_id, reviewer_id)

\* One transaction: the status UPDATE has no condition on the current status.
SubmitReview(item_id, action, corrections, has_reason, reviewer_id) ==
    LET applied == ApplyCorrections(extracted_fields[item_id], audit_log,
                                    corrections, item_id, reviewer_id)
        rejected == IF action = "reject" /\ has_reason
                    THEN Append(applied.log,
                                Valued(AuditEntry(item_id, "rejection",
                                                  reviewer_id, "none"),
                                       "none", "reason"))
                    ELSE applied.log
        approved == IF action = "approve"
                    THEN Append(rejected,
                                AuditEntry(item_id, "approval", reviewer_id, "none"))
                    ELSE rejected
    IN  /\ rowLock[item_id] = 0
        /\ Len(approved) <= MaxAudit
        /\ review_items' = [review_items EXCEPT ![item_id] =
               IF @.status = "absent" THEN @
               ELSE Completed(@, action, now)]
        /\ extracted_fields' = [extracted_fields EXCEPT ![item_id] = applied.fields]
        /\ audit_log' = approved
        /\ UNCHANGED <<dagVars, execVars, now, rowLock, claimVars, assignPending>>

\* release_expired_claims as a call: released = int(result.split()[-1]) is
\* the number of rows its UPDATE changed.
ReleaseCall ==
    /\ ReleaseExpiredClaims
    /\ rvReturn' = [op |-> "release_expired_claims",
                    value |-> Cardinality({i \in ItemIds : Expired(review_items[i])})]

\* Time passing, claims and releases.
ReleaseNext ==
    \/ Tick /\ rvReturn' = NoReturn
    \/ \E i \in ItemIds, r \in Reviewers :
          ClaimItem(i, r) /\ rvReturn' = [op |-> "claim_item", value |-> 1]
    \/ ReleaseCall

\* submission.reason matters to a rejection only.
Reasons(action) == IF action = "reject" THEN BOOLEAN ELSE {FALSE}

RvNext ==
    \/ Tick
    \/ \E i \in ItemIds, r \in Reviewers : ClaimItem(i, r)
    \/ \E doc \in Documents, fcs \in FieldConfidences : CreateReviewItem(doc, fcs)
    \/ AutoAssignLeastLoaded
    \/ \E i \in ItemIds : AutoAssign(i)
    \/ ReleaseExpiredClaims
    \/ \E i \in ItemIds, action \in {"approve", "correct", "reject"},
          corrections \in CorrectionLists :
          \E has_reason \in Reasons(action) :
             SubmitReview(i, action, corrections, has_reason, "r1")

\* Two documents have been materialized and auto-assigned, in either order;
\* no claim has been made.
ClaimInit ==
    /\ \E first \in ItemIds, r \in Reviewers :
          LET second == CHOOSE i \in ItemIds : i # first
              other == CHOOSE o \in Reviewers : o # r
          IN  /\ review_items =
                    [i \in ItemIds |->
                        [NoItem EXCEPT !.status = "pending",
                                       !.assigned_to = IF i = first THEN r ELSE other]]
              /\ audit_log = <<AuditEntry(first, "auto_assign", r, "none"),
                               AuditEntry(second, "auto_assign", other, "none")>>
    /\ extracted_fields = [i \in ItemIds |-> [f \in FieldNames |-> NewField("v1")]]
    /\ now = 0
    /\ rowLock = [i \in ItemIds |-> 0]
    /\ claimPc = [p \in Claimers |-> "idle"]
    /\ claimArgs = [p \in Claimers |-> NoClaimArgs]
    /\ claimResult = [p \in Claimers |-> "none"]
    /\ assignPending = "none"

\* The rows claim_item may find: no row, a pending one (auto-assigned or
\* not), one in review since minute 0, one approved at minute 0.
ItemRows ==
    {NoItem,
     [NoItem EXCEPT !.status = "pending"],
     [NoItem EXCEPT !.status = "pending", !.assigned_to = "r2"],
     [NoItem EXCEPT !.status = "in_review", !.assigned_to = "r2",
                    !.claimed_at = At(0),
                    !.sla_deadline = At(SlaDefaultHours * 60)],
     [NoItem EXCEPT !.status = "approved", !.assigned_to = "r2",
                    !.claimed_at = At(0),
                    !.sla_deadline = At(SlaDefaultHours * 60),
                    !.completed_at = At(0)]}

(* submit_review as a call that may fail *)
NoSubmit ==
    [item_id |-> "none", action |-> "none", corrections |-> <<>>,
     has_reason |-> FALSE, reviewer_id |-> "none", outcome |-> "none"]

\* A failed transaction that leaves what it wrote.
RolledBackKeepsWrites(before, written) == written

\* async with db.transaction(): an exception inside the block rolls the
\* transaction back, and what its statements wrote is never visible.
RolledBack(before, written) == before

\* submit_review returns after its transaction committed.
SubmitReviewCommits(item_id, action, corrections, has_reason, reviewer_id) ==
    /\ SubmitReview(item_id, action, corrections, has_reason, reviewer_id)
    /\ submitCall' =
           [item_id |-> item_id, action |-> action, corrections |-> corrections,
            has_reason |-> has_reason, reviewer_id |-> reviewer_id,
            outcome |-> "committed"]

\* A statement after the status UPDATE raises (a field UPDATE or an audit
\* INSERT): the exception leaves the transaction block and the call.
SubmitReviewFails(item_id, action, corrections, has_reason, reviewer_id) ==
    LET written == [review_items EXCEPT ![item_id] =
                       IF @.status = "absent" THEN @
                       ELSE [@ EXCEPT !.status = StatusOf(action),
                                      !.completed_at = At(now)]]
    IN  /\ rowLock[item_id] = 0
        /\ review_items' = RolledBack(review_items, written)
        /\ submitCall' =
               [item_id |-> item_id, action |-> action,
                corrections |-> corrections, has_reason |-> has_reason,
                reviewer_id |-> reviewer_id, outcome |-> "raised"]
        /\ UNCHANGED <<dagVars, execVars, extracted_fields, audit_log, now,
                       rowLock, claimVars, assignPending>>

\* A field that a correction by r2 locked at minute 0.
LockedField(v) ==
    [NewField(v) EXCEPT !.locked = TRUE, !.manually_corrected = TRUE,
                        !.corrected_at = At(0), !.corrected_by = "r2"]

\* Minute 1: d1 in any status, with its field unlocked, locked or missing;
\* d2, which no call names, in review with its field unlocked.
SubmitInit ==
    /\ review_items \in [ItemIds -> ItemRows]
    /\ review_items["d2"].status = "in_review"
    /\ extracted_fields \in
           [ItemIds -> [FieldNames -> {NoField, NewField("v1"), LockedField("v1")}]]
    /\ \A f \in FieldNames : extracted_fields["d2"][f] = NewField("v1")
    /\ review_items["d1"].status = "absent" =>
           \A f \in FieldNames : extracted_fields["d1"][f] = NoField
    /\ audit_log = <<>>
    /\ now = 1
    /\ rowLock = [i \in ItemIds |-> 0]
    /\ claimPc = [p \in Claimers |-> "idle"]
    /\ claimArgs = [p \in Claimers |-> NoClaimArgs]
    /\ claimResult = [p \in Claimers |-> "none"]
    /\ assignPending = "none"
    /\ submitCall = NoSubmit

SubmitNext ==
    \/ \E action \in {"approve", "correct", "reject"},
          corrections \in CorrectionLists :
          \E has_reason \in Reasons(action) :
             SubmitReviewCommits("d1", action, corrections, has_reason, "r1")
    \/ \E action \in {"approve", "correct", "reject"},
          corrections \in CorrectionLists :
          \E has_reason \in Reasons(action) :
             SubmitReviewFails("d1", action, corrections, has_reason, "r1")

\* Items in any status at minute 1, no claim made yet.
ClaimAnyInit ==
    /\ review_items \in [ItemIds -> ItemRows]
    /\ extracted_fields =
           [i \in ItemIds |-> [f \in FieldNames |->
               IF review_items[i].status = "absent" THEN NoField
               ELSE NewField("v1")]]
    /\ audit_log = <<>>
    /\ now = 1
    /\ rowLock = [i \in ItemIds |-> 0]
    /\ claimPc = [p \in Claimers |-> "idle"]
    /\ claimArgs = [p \in Claimers |-> NoClaimArgs]
    /\ claimResult = [p \in Claimers |-> "none"]
    /\ assignPending = "none"

ClaimNext ==
    \/ \E p \in Claimers, i \in ItemIds, r \in Reviewers : ClaimBegin(p, i, r)
    \/ \E p \in Claimers : ClaimUpdate(p)
    \/ \E p \in Claimers : ClaimCommit(p)
    \/ \E p \in Claimers : ClaimReturn(p)

(***************************************************************************)
(* submit_review and auto_assign as calls that take their inputs before    *)
(* their transaction starts, racing with claim_item.                       *)
(***************************************************************************)
NoSubmitTx ==
    [pc |-> "idle", item_id |-> "none", action |-> "none",
     reviewer_id |-> "none", now |-> 0]

NoAssignTx == [pc |-> "idle", item_id |-> "none", reviewer |-> "none"]

TxIdle == submitTx = NoSubmitTx /\ assignTx = NoAssignTx

\* new_status = action_to_status[submission.action]; now = _utcnow()
SubmitBegin(item_id, action, reviewer_id) ==
    /\ submitTx.pc = "idle"
    /\ submitTx' = [pc |-> "begun", item_id |-> item_id, action |-> action,
                    reviewer_id |-> reviewer_id, now |-> now]
    /\ UNCHANGED <<dagVars, execVars, rvVars, assignTx>>

\* The transaction of a submission with no corrections: the status UPDATE,
\* which waits for the row, the approval entry, and the commit.
SubmitCommit ==
    LET a == submitTx IN
    /\ a.pc = "begun"
    /\ rowLock[a.item_id] = 0
    /\ review_items' = [review_items EXCEPT ![a.item_id] =
           IF @.status = "absent" THEN @ ELSE Completed(@, a.action, a.now)]
    /\ audit_log' = IF a.action = "approve"
                    THEN Append(audit_log,
                             AuditEntry(a.item_id, "approval", a.reviewer_id, "none"))
                    ELSE audit_log
    /\ submitTx' = [a EXCEPT !.pc = "returned"]
    /\ UNCHANGED <<dagVars, execVars, extracted_fields, now, rowLock,
                   claimVars, assignPending, assignTx>>

\* workload = await self.get_reviewer_workload(); reviewer = tied[0]
AssignRead(item_id) ==
    /\ Len(Roster) > 0
    /\ assignTx.pc = "idle"
    /\ assignTx' = [pc |-> "picked", item_id |-> item_id, reviewer |-> Tied[1]]
    /\ UNCHANGED <<dagVars, execVars, rvVars, submitTx>>

\* UPDATE review_items SET assigned_to = $1 WHERE id = $2 AND status =
\* 'pending'; with no row updated the call returns None, else it appends the
\* auto_assign entry.
AssignWrite ==
    LET a == assignTx IN
    /\ a.pc = "picked"
    /\ rowLock[a.item_id] = 0
    /\ IF review_items[a.item_id].status = "pending"
       THEN /\ review_items' = [review_items EXCEPT
                                   ![a.item_id].assigned_to = a.reviewer]
            /\ audit_log' = Append(audit_log,
                   AuditEntry(a.item_id, "auto_assign", a.reviewer, "none"))
            /\ assignTx' = [a EXCEPT !.pc = "assigned"]
       ELSE /\ UNCHANGED <<review_items, audit_log>>
            /\ assignTx' = [a EXCEPT !.pc = "None"]
    /\ UNCHANGED <<dagVars, execVars, extracted_fields, now, rowLock,
                   claimVars, assignPending, submitTx>>

\* Two items created by create_item: pending, assigned to nobody.
RaceInit ==
    /\ review_items = [i \in ItemIds |-> [NoItem EXCEPT !.status = "pending"]]
    /\ extracted_fields = [i \in ItemIds |-> [f \in FieldNames |-> NewField("v1")]]
    /\ audit_log = <<>>
    /\ now = 0
    /\ rowLock = [i \in ItemIds |-> 0]
    /\ claimPc = [p \in Claimers |-> "idle"]
    /\ claimArgs = [p \in Claimers |-> NoClaimArgs]
    /\ claimResult = [p \in Claimers |-> "none"]
    /\ assignPending = "none"

RaceNext ==
    \/ Tick /\ UNCHANGED txVars
    \/ \E i \in ItemIds, r \in Reviewers : ClaimBegin(1, i, r) /\ UNCHANGED txVars
    \/ ClaimUpdate(1) /\ UNCHANGED txVars
    \/ ClaimCommit(1) /\ UNCHANGED txVars
    \/ ClaimReturn(1) /\ UNCHANGED txVars
    \/ \E i \in ItemIds, action \in {"approve", "reject"} :
          SubmitBegin(i, action, "r1")
    \/ SubmitCommit
    \/ \E i \in ItemIds : AssignRead(i)
    \/ AssignWrite

(***************************************************************************)
(* The worker: process_document_dag_task, one task per uploaded document.  *)
(***************************************************************************)
Hashes == {"h1", "h2"}

\* The upload route stores the file as f"{doc_id}{ext}".
StoredFilename(document_id) == <<document_id, "ext">>

NoExtraction ==
    [document_id |-> "none", filename |-> <<>>, content_hash |-> "none",
     field_confidences |-> [f \in FieldNames |-> "missing"]]

NoRow == [document_id |-> "none", filename |-> <<>>, result_json |-> NoExtraction]

\* No document has been uploaded.
WkIdle ==
    /\ documents = [d \in ItemIds |-> "absent"]
    /\ processed_documents = [h \in Hashes |-> NoRow]
    /\ content = [d \in ItemIds |-> "h1"]
    /\ workerPc = [d \in ItemIds |-> "none"]
    /\ taskRetries = [d \in ItemIds |-> 0]
    /\ extracted = [d \in ItemIds |-> NoExtraction]
    /\ taskResult = [d \in ItemIds |-> NoExtraction]

\* Every document has been uploaded and its task queued; two uploads may
\* carry the same bytes.
WkInit ==
    /\ documents = [d \in ItemIds |-> "queued"]
    /\ processed_documents = [h \in Hashes |-> NoRow]
    /\ content \in [ItemIds -> Hashes]
    /\ workerPc = [d \in ItemIds |-> "queued"]
    /\ taskRetries = [d \in ItemIds |-> 0]
    /\ extracted = [d \in ItemIds |-> NoExtraction]
    /\ taskResult = [d \in ItemIds |-> NoExtraction]

\* _update_doc_status("processing")
TaskBegin(d) ==
    /\ workerPc[d] = "queued"
    /\ documents' = [documents EXCEPT ![d] = "processing"]
    /\ workerPc' = [workerPc EXCEPT ![d] = "lookup"]
    /\ UNCHANGED <<dagVars, execVars, rvVars, processed_documents, content,
                   taskRetries, extracted, taskResult>>

\* get_cached_result: the row of the file's content hash.
CachedRow(d) == processed_documents[content[d]]

\* A duplicate reported with the cached result as it is.
HitResultUnchanged(cached, document_id, filename) == cached

\* ExtractionResult(**{**cached, "document_id": ..., "filename": ...})
HitResult(cached, document_id, filename) ==
    [cached EXCEPT !.document_id = document_id, !.filename = filename]

\* Cache hit: the document is marked duplicate and the task returns.
CacheHit(d) ==
    /\ workerPc[d] = "lookup"
    /\ CachedRow(d) # NoRow
    /\ documents' = [documents EXCEPT ![d] = "duplicate"]
    /\ taskResult' = [taskResult EXCEPT ![d] =
           HitResult(CachedRow(d).result_json, d, StoredFilename(d))]
    /\ workerPc' = [workerPc EXCEPT ![d] = "done"]
    /\ UNCHANGED <<dagVars, execVars, rvVars, processed_documents, content,
                   taskRetries, extracted>>

\* Cache miss: the DAG is built and executed.
CacheMiss(d) ==
    /\ workerPc[d] = "lookup"
    /\ CachedRow(d) = NoRow
    /\ workerPc' = [workerPc EXCEPT ![d] = "extract"]
    /\ UNCHANGED <<dagVars, execVars, rvVars, documents, processed_documents,
                   content, taskRetries, extracted, taskResult>>

\* The lookup raises (the file or the database cannot be read): the except
\* clause marks the document failed and asks Celery for a retry.
LookupRaises(d) ==
    /\ workerPc[d] = "lookup"
    /\ documents' = [documents EXCEPT ![d] = "failed"]
    /\ IF taskRetries[d] < CeleryMaxRetries
       THEN /\ taskRetries' = [taskRetries EXCEPT ![d] = @ + 1]
            /\ workerPc' = [workerPc EXCEPT ![d] = "queued"]
       ELSE /\ workerPc' = [workerPc EXCEPT ![d] = "done"]
            /\ UNCHANGED taskRetries
    /\ UNCHANGED <<dagVars, execVars, rvVars, processed_documents, content,
                   extracted, taskResult>>

\* Step extract completes: the result carries the task's document_id, the
\* name of the file and the hash of its bytes.
ExtractCompletes(d, fcs) ==
    /\ workerPc[d] = "extract"
    /\ extracted' = [extracted EXCEPT ![d] =
           [document_id |-> d, filename |-> StoredFilename(d),
            content_hash |-> content[d], field_confidences |-> fcs]]
    /\ workerPc' = [workerPc EXCEPT ![d] = "save"]
    /\ UNCHANGED <<dagVars, execVars, rvVars, documents, processed_documents,
                   content, taskRetries, taskResult>>

\* A step ends FAILED after its attempts: its dependents are skipped, the
\* workflow is not a success and the document is marked failed.
StepFails(d, at) ==
    /\ workerPc[d] = at
    /\ documents' = [documents EXCEPT ![d] = "failed"]
    /\ workerPc' = [workerPc EXCEPT ![d] = "done"]
    /\ UNCHANGED <<dagVars, execVars, rvVars, processed_documents, content,
                   taskRetries, extracted, taskResult>>

\* cache_result: INSERT ... ON CONFLICT (content_hash) DO NOTHING
CacheResult(cache, result) ==
    IF result.content_hash = "none" \/ cache[result.content_hash] # NoRow
    THEN cache
    ELSE [cache EXCEPT ![result.content_hash] =
             [document_id |-> result.document_id, filename |-> result.filename,
              result_json |-> result]]

\* Step save_parquet: save_result writes both files, then the cache row.
SaveResult(d) ==
    /\ workerPc[d] = "save"
    /\ processed_documents' = CacheResult(processed_documents, extracted[d])
    /\ workerPc' = [workerPc EXCEPT ![d] = "create_review"]
    /\ UNCHANGED <<dagVars, execVars, rvVars, documents, content, taskRetries,
                   extracted, taskResult>>

\* Step create_review: create_review_item, then its auto-assign.
WorkerCreateReview(d) ==
    /\ workerPc[d] = "create_review"
    /\ CreateReviewItem(d, extracted[d].field_confidences)
    /\ workerPc' = [workerPc EXCEPT ![d] = "assign"]
    /\ UNCHANGED <<documents, processed_documents, content, taskRetries,
                   extracted, taskResult>>

WorkerAutoAssign(d) ==
    /\ workerPc[d] = "assign"
    /\ assignPending = d
    /\ AutoAssignLeastLoaded
    /\ workerPc' = [workerPc EXCEPT ![d] = "finish"]
    /\ UNCHANGED <<documents, processed_documents, content, taskRetries,
                   extracted, taskResult>>

\* result.success: the document is marked completed and the output of
\* extract is returned.
TaskCompletes(d) ==
    /\ workerPc[d] = "finish"
    /\ documents' = [documents EXCEPT ![d] = "completed"]
    /\ taskResult' = [taskResult EXCEPT ![d] = extracted[d]]
    /\ workerPc' = [workerPc EXCEPT ![d] = "done"]
    /\ UNCHANGED <<dagVars, execVars, rvVars, processed_documents, content,
                   taskRetries, extracted>>

WkNext ==
    \/ \E d \in ItemIds : TaskBegin(d)
    \/ \E d \in ItemIds : CacheHit(d)
    \/ \E d \in ItemIds : CacheMiss(d)
    \/ \E d \in ItemIds : LookupRaises(d)
    \/ \E d \in ItemIds, fcs \in FieldConfidences : ExtractCompletes(d, fcs)
    \/ \E d \in ItemIds, at \in {"extract", "save", "create_review"} : StepFails(d, at)
    \/ \E d \in ItemIds : SaveResult(d)
    \/ \E d \in ItemIds : WorkerCreateReview(d)
    \/ \E d \in ItemIds : WorkerAutoAssign(d)
    \/ \E d \in ItemIds : TaskCompletes(d)


(***************************************************************************)
(* StorageService.save_result: both output files written through a         *)
(* temporary sibling, then the cache row.                                  *)
(***************************************************************************)
Formats == {"json", "parquet"}
Paths == Formats \X {"final", "tmp"}

\* json_dir / f"{document_id}.json", parquet_dir / f"{document_id}.parquet"
FinalPath(format) == <<format, "final">>

\* A write that opens the final path itself.
MkstempIsFinalPath(format) == <<format, "final">>

\* tempfile.mkstemp(dir=str(path.parent), suffix=".json.tmp" / ".parquet.tmp")
Mkstemp(format) == <<format, "tmp">>

\* os.rename(tmp_path, str(path))
Rename(files, src, dst) ==
    [q \in Paths |-> IF q = dst THEN files[src]
                     ELSE IF q = src THEN "absent" ELSE files[q]]

\* if os.path.exists(tmp_path): os.unlink(tmp_path)
Unlink(files, path) == [files EXCEPT ![path] = "absent"]

\* Where a save_result call is: the format it is writing (or "cache", or
\* "none") and the stage it is at.
SaveAt(at, stage) == [at |-> at, stage |-> stage]

\* No file has been written and no save_result is running.
SvIdle ==
    /\ fs = [d \in ItemIds |-> [q \in Paths |-> "absent"]]
    /\ savePc = [d \in ItemIds |-> SaveAt("none", "idle")]

\* The formats in the order save_result writes them, and what follows each.
AfterFormat(format) ==
    IF format = "json" THEN SaveAt("parquet", "mkstemp") ELSE SaveAt("cache", "cache")

\* save_result is called for the extraction result of a document: the first
\* call, or the call of a retried step after a failed one.
SaveCall(d) ==
    /\ savePc[d].stage \in {"idle", "raised"}
    /\ savePc' = [savePc EXCEPT ![d] = SaveAt("json", "mkstemp")]
    /\ UNCHANGED <<fs, wkVars>>

\* mkstemp creates the temporary file, empty.
MakeTemp(d, format) ==
    /\ savePc[d] = SaveAt(format, "mkstemp")
    /\ fs' = [fs EXCEPT ![d][Mkstemp(format)] = "partial"]
    /\ savePc' = [savePc EXCEPT ![d] = SaveAt(format, "write")]
    /\ UNCHANGED wkVars

\* json.dump / pq.write_table write the whole content to the temporary file.
WriteTemp(d, format) ==
    /\ savePc[d] = SaveAt(format, "write")
    /\ fs' = [fs EXCEPT ![d][Mkstemp(format)] = "complete"]
    /\ savePc' = [savePc EXCEPT ![d] = SaveAt(format, "rename")]
    /\ UNCHANGED wkVars

RenameTemp(d, format) ==
    /\ savePc[d] = SaveAt(format, "rename")
    /\ fs' = [fs EXCEPT ![d] = Rename(@, Mkstemp(format), FinalPath(format))]
    /\ savePc' = [savePc EXCEPT ![d] = AfterFormat(format)]
    /\ UNCHANGED wkVars

\* Creating, writing or renaming the temporary file raises: the except
\* clause unlinks the temporary file if it exists and raises again.
WriteFails(d, format) ==
    /\ savePc[d].at = format
    /\ savePc[d].stage \in {"mkstemp", "write", "rename"}
    /\ fs' = [fs EXCEPT ![d] = Unlink(@, Mkstemp(format))]
    /\ savePc' = [savePc EXCEPT ![d] = SaveAt(format, "raised")]
    /\ UNCHANGED wkVars

\* self.cache_result(result), then the return of both paths.
SaveCaches(d) ==
    /\ savePc[d] = SaveAt("cache", "cache")
    /\ processed_documents' = CacheResult(processed_documents, extracted[d])
    /\ savePc' = [savePc EXCEPT ![d] = SaveAt("none", "returned")]
    /\ UNCHANGED <<fs, documents, content, workerPc, taskRetries, extracted,
                   taskResult>>

\* cache_result raises (the database cannot be reached).
CacheFails(d) ==
    /\ savePc[d] = SaveAt("cache", "cache")
    /\ savePc' = [savePc EXCEPT ![d] = SaveAt("cache", "raised")]
    /\ UNCHANGED <<fs, wkVars>>

\* Every document has been extracted; nothing has been saved.
SaveInit ==
    /\ SvIdle
    /\ documents = [d \in ItemIds |-> "processing"]
    /\ processed_documents = [h \in Hashes |-> NoRow]
    /\ content \in [ItemIds -> Hashes]
    /\ workerPc = [d \in ItemIds |-> "save"]
    /\ taskRetries = [d \in ItemIds |-> 0]
    /\ extracted = [d \in ItemIds |->
           [document_id |-> d, filename |-> StoredFilename(d),
            content_hash |-> content[d],
            field_confidences |-> [f \in FieldNames |-> "v1"]]]
    /\ taskResult = [d \in ItemIds |-> NoExtraction]

SaveNext ==
    \/ \E d \in ItemIds : SaveCall(d)
    \/ \E d \in ItemIds, format \in Formats : MakeTemp(d, format)
    \/ \E d \in ItemIds, format \in Formats : WriteTemp(d, format)
    \/ \E d \in ItemIds, format \in Formats : RenameTemp(d, format)
    \/ \E d \in ItemIds, format \in Formats : WriteFails(d, format)
    \/ \E d \in ItemIds : SaveCaches(d)
    \/ \E d \in ItemIds : CacheFails(d)

(***************************************************************************)
(* MonitoringService (services/monitoring_service.py).                     *)
(***************************************************************************)
\* The clock ticks every half hour; _WINDOW_SECONDS = 3600 is two ticks.
TicksPerHour == 2
WindowTicks == 2

\* What an observer has: the times of the events recorded so far, and the
\* metrics last reported.  Rates are in tenths of a document per hour, the
\* precision of round(x, 1).
NoReport == [op |-> "none", docs_per_hour |-> 0, events |-> <<>>]

\* MonitoringService.__init__ at time t
NewMonitor(t) ==
    [processing_window |-> <<>>, window_start |-> t, processed_count |-> 0,
     documents_per_hour |-> 0]

MonIdle == mon = NewMonitor(0) /\ monClock = 0 /\ monReport = NoReport

\* round(num / den, 1) in tenths: to the nearest, a tie to the even tenth.
RoundTenths(num, den) ==
    LET q == (10 * num) \div den
        r == (10 * num) % den
    IN  IF 2 * r < den THEN q
        ELSE IF 2 * r > den THEN q + 1
        ELSE IF q % 2 = 0 THEN q ELSE q + 1

\* _evict_old_entries: popleft while the oldest entry is before the cutoff.
RECURSIVE EvictOldEntries(_, _)
EvictOldEntries(window, t) ==
    IF window # <<>> /\ Head(window) < t - WindowTicks
    THEN EvictOldEntries(Tail(window), t)
    ELSE window

\* rate = len(durations) / max(_WINDOW_SECONDS / 3600, 0.001)
WindowRate(window) == RoundTenths(Len(window) * TicksPerHour, WindowTicks)

\* self._processed_count / max((now - self._window_start) / 3600, 0.001)
LifetimeRate(m, t) ==
    IF t = m.window_start
    THEN 10 * 1000 * m.processed_count
    ELSE RoundTenths(m.processed_count * TicksPerHour, t - m.window_start)

\* record_processing, with its _update_derived_metrics
RecordProcessing ==
    /\ mon.processed_count < MaxEvents
    /\ LET window == EvictOldEntries(Append(mon.processing_window, monClock),
                                     monClock)
       IN  mon' = [mon EXCEPT !.processing_window = window,
                              !.processed_count = @ + 1,
                              !.documents_per_hour = WindowRate(window)]
    /\ monReport' = [monReport EXCEPT !.op = "record_processing",
                                      !.events = Append(@, monClock)]
    /\ UNCHANGED monClock

\* _get_current_metrics, called by get_dashboard_metrics and by check_slas,
\* which evaluates each SLA against the value of its metric_name.
GetCurrentMetrics(op) ==
    /\ mon' = [mon EXCEPT !.processing_window = EvictOldEntries(@, monClock)]
    /\ monReport' = [monReport EXCEPT !.op = op,
                                      !.docs_per_hour = LifetimeRate(mon, monClock)]
    /\ UNCHANGED monClock

MonTick ==
    /\ monClock < MaxMonClock
    /\ monClock' = monClock + 1
    /\ monReport' = [monReport EXCEPT !.op = "none"]
    /\ UNCHANGED mon

MonNext ==
    \/ RecordProcessing
    \/ \E op \in {"get_dashboard_metrics", "check_slas"} : GetCurrentMetrics(op)
    \/ MonTick

(***************************************************************************)
(* Two submit_review transactions, each carrying one correction.           *)
(***************************************************************************)
Submitters == {1, 2}

NoSub == [pc |-> "idle", item_id |-> "none", field_name |-> "none",
          value |-> "none", reviewer_id |-> "none", now |-> 0,
          old_value |-> "none"]

SubIdle == subTx = [p \in Submitters |-> NoSub]

\* submit_review(item_id, action=correct, corrections={field_name: value}):
\* new_status and now are taken before the transaction starts.
SubBegin(p, item_id, field_name, value, reviewer_id) ==
    /\ subTx[p].pc = "idle"
    /\ subTx' = [subTx EXCEPT ![p] =
           [NoSub EXCEPT !.pc = "status", !.item_id = item_id,
                         !.field_name = field_name, !.value = value,
                         !.reviewer_id = reviewer_id, !.now = now]]
    /\ UNCHANGED <<dagVars, execVars, rvVars>>

\* A status UPDATE that leaves the row free for other transactions.
HoldsNoRow(p) == 0

\* The transaction that has updated the row of an item holds it until it
\* commits.
HoldsRow(p) == p

\* UPDATE review_items SET status = $1, completed_at = $2 WHERE id = $3: the
\* first statement of the transaction; it waits while another transaction
\* holds the row.
SubStatusUpdate(p) ==
    LET a == subTx[p] IN
    /\ a.pc = "status"
    /\ rowLock[a.item_id] = 0
    /\ rowLock' = [rowLock EXCEPT ![a.item_id] = HoldsRow(p)]
    /\ review_items' = [review_items EXCEPT ![a.item_id] =
           IF @.status = "absent" THEN @ ELSE Completed(@, "correct", a.now)]
    /\ subTx' = [subTx EXCEPT ![p].pc = "select"]
    /\ UNCHANGED <<dagVars, execVars, extracted_fields, audit_log, now,
                   claimVars, assignPending>>

\* SELECT id, value, locked FROM extracted_fields ...; a missing or locked
\* row is skipped.
SubSelect(p) ==
    LET a == subTx[p]
        row == extracted_fields[a.item_id][a.field_name]
    IN  /\ a.pc = "select"
        /\ subTx' = [subTx EXCEPT ![p] =
               IF CorrectionSkipped(row)
               THEN [a EXCEPT !.pc = "commit"]
               ELSE [a EXCEPT !.pc = "update", !.old_value = row.value]]
        /\ UNCHANGED <<dagVars, execVars, rvVars>>

\* UPDATE extracted_fields SET value, manually_corrected, corrected_at,
\* corrected_by, locked WHERE id = $4, then the correction entry.
SubFieldUpdate(p) ==
    LET a == subTx[p] IN
    /\ a.pc = "update"
    /\ extracted_fields' = [extracted_fields EXCEPT ![a.item_id][a.field_name] =
           [@ EXCEPT !.value = a.value,
                     !.manually_corrected = TRUE,
                     !.corrected_at = At(a.now),
                     !.corrected_by = a.reviewer_id,
                     !.locked = TRUE]]
    /\ audit_log' = Audit(audit_log,
           Valued(AuditEntry(a.item_id, "correction", a.reviewer_id, a.field_name),
                  a.old_value, a.value))
    /\ subTx' = [subTx EXCEPT ![p].pc = "commit"]
    /\ UNCHANGED <<dagVars, execVars, review_items, now, rowLock, claimVars,
                   assignPending>>

\* The transaction commits and the row is free again.
SubCommit(p) ==
    LET a == subTx[p] IN
    /\ a.pc = "commit"
    /\ rowLock' = [rowLock EXCEPT ![a.item_id] = 0]
    /\ subTx' = [subTx EXCEPT ![p].pc = "returned"]
    /\ UNCHANGED <<dagVars, execVars, review_items, extracted_fields,
                   audit_log, now, claimVars, assignPending>>

\* Two items in review, each with its field unlocked.
SubInit ==
    /\ review_items = [i \in ItemIds |->
           [NoItem EXCEPT !.status = "in_review", !.assigned_to = "r1",
                          !.claimed_at = At(0),
                          !.sla_deadline = At(SlaDefaultHours * 60)]]
    /\ extracted_fields = [i \in ItemIds |-> [f \in FieldNames |-> NewField("v1")]]
    /\ audit_log = <<>>
    /\ now = 0
    /\ rowLock = [i \in ItemIds |-> 0]
    /\ claimPc = [p \in Claimers |-> "idle"]
    /\ claimArgs = [p \in Claimers |-> NoClaimArgs]
    /\ claimResult = [p \in Claimers |-> "none"]
    /\ assignPending = "none"

\* Submitter 1 acts for r1, submitter 2 for r2.
SubNext ==
    \/ Tick /\ UNCHANGED subTx
    \/ \E p \in Submitters, i \in ItemIds, f \in FieldNames, v \in Values :
          SubBegin(p, i, f, v, Roster[p])
    \/ \E p \in Submitters : SubStatusUpdate(p)
    \/ \E p \in Submitters : SubSelect(p)
    \/ \E p \in Submitters : SubFieldUpdate(p)
    \/ \E p \in Submitters : SubCommit(p)

(***************************************************************************)
(* process_document_dag_task running the standard document-processing DAG  *)
(* of build_document_processing_dag for one document whose content is not  *)
(* in the cache.                                                           *)
(***************************************************************************)
StdStepIds == {"extract", "save_parquet", "save_json", "create_review",
               "record_metrics"}

StdEmptyDag ==
    [steps      |-> <<>>,
     depends_on |-> [s \in StdStepIds |-> <<>>],
     adjacency  |-> [s \in StdStepIds |-> <<>>]]

\* build_document_processing_dag: the five add_step calls, in their order.
BuildDocumentProcessingDag ==
    AddStepOp(
      AddStepOp(
        AddStepOp(
          AddStepOp(
            AddStepOp(StdEmptyDag, "extract", <<>>),
            "save_parquet", <<"extract">>),
          "save_json", <<"extract">>),
        "create_review", <<"save_parquet", "save_json">>),
      "record_metrics", <<"extract">>)

\* max_retries of the five add_step calls.
StdMaxRetries ==
    [extract |-> 3, save_parquet |-> 2, save_json |-> 1, create_review |-> 2,
     record_metrics |-> 1]

\* WorkflowExecutor(max_concurrency=4, ...) in process_document_dag_task.
StdMaxConcurrency == 4

\* Nothing written, the document uploaded and queued.
NoEffects ==
    [document |-> "queued", files |-> {}, cache_row |-> FALSE,
     review_item |-> FALSE, metrics |-> 0]

StdFresh ==
    /\ stdLayerIdx = 1
    /\ stdResults = [s \in StdStepIds |-> NoResult]
    /\ stdOutputs = {}
    /\ stdStepPc = [s \in StdStepIds |-> "idle"]
    /\ stdAttempt = [s \in StdStepIds |-> 0]
    /\ stdSem = StdMaxConcurrency
    /\ stdSuccess = FALSE

\* No task runs the standard DAG.
StdIdle == stdPc = "none" /\ stdEffects = NoEffects /\ StdFresh

\* The task is queued for an uploaded document.
StdInit == stdPc = "queued" /\ stdEffects = NoEffects /\ StdFresh

StdLayers == ExecutionLayers(BuildDocumentProcessingDag)

\* _update_doc_status("processing"), the cache lookup misses, the DAG is
\* built and execute() validates it and computes its layers.
StdTaskBegin ==
    /\ stdPc = "queued"
    /\ Validate(BuildDocumentProcessingDag) = <<>>
    /\ stdEffects' = [stdEffects EXCEPT !.document = "processing"]
    /\ stdPc' = "layer"
    /\ UNCHANGED <<stdLayerIdx, stdResults, stdOutputs, stdStepPc, stdAttempt,
                   stdSem, stdSuccess>>

\* A dependency check that also skips the dependents of a skipped step.
StdDepFailedOrSkipped(s) ==
    \E d \in Range(BuildDocumentProcessingDag.depends_on[s]) :
        stdResults[d].status \in {"failed", "skipped"}

\* dep_failed: some dependency's result is FAILED.  (dep_skipped is computed
\* and not used.)
StdDepFailed(s) ==
    \E d \in Range(BuildDocumentProcessingDag.depends_on[s]) :
        stdResults[d].status \in {"failed"}

\* The body of "for layer in layers" up to the gather.
StdLaunchLayer ==
    /\ stdPc = "layer"
    /\ stdLayerIdx <= Len(StdLayers)
    /\ LET layer == Range(StdLayers[stdLayerIdx])
       IN  /\ stdResults' = [s \in StdStepIds |->
                               IF s \in layer /\ StdDepFailed(s)
                               THEN StepResult("skipped", "Dependency failed", 0)
                               ELSE stdResults[s]]
           /\ stdStepPc' = [s \in StdStepIds |->
                               IF s \in layer /\ ~StdDepFailed(s)
                               THEN "launched" ELSE stdStepPc[s]]
    /\ stdPc' = "gather"
    /\ UNCHANGED <<stdLayerIdx, stdOutputs, stdAttempt, stdSem, stdEffects,
                   stdSuccess>>

\* await asyncio.gather(*tasks) has returned; the loop moves on.
StdGatherReturns ==
    /\ stdPc = "gather"
    /\ \A s \in Range(StdLayers[stdLayerIdx]) : stdStepPc[s] \in {"idle", "done"}
    /\ stdLayerIdx' = stdLayerIdx + 1
    /\ stdPc' = "layer"
    /\ UNCHANGED <<stdResults, stdOutputs, stdStepPc, stdAttempt, stdSem,
                   stdEffects, stdSuccess>>

\* The for loop is over: success = (failed == 0) and execute() returns.
StdFinish ==
    /\ stdPc = "layer"
    /\ stdLayerIdx > Len(StdLayers)
    /\ stdSuccess' = (\A s \in StdStepIds : stdResults[s].status # "failed")
    /\ stdPc' = "returned"
    /\ UNCHANGED <<stdLayerIdx, stdResults, stdOutputs, stdStepPc, stdAttempt,
                   stdSem, stdEffects>>

\* Only record_metrics has a condition:
\* ctx.get("step_outputs", {}).get("extract") is not None
StdCondition(s) == s = "record_metrics" => "extract" \in stdOutputs

\* The condition is evaluated: False gives SKIPPED, else the coroutine goes
\* on to the semaphore.
StdEvaluateCondition(s) ==
    /\ stdStepPc[s] = "launched"
    /\ IF StdCondition(s)
       THEN /\ stdStepPc' = [stdStepPc EXCEPT ![s] = "sem"]
            /\ UNCHANGED stdResults
       ELSE /\ stdStepPc' = [stdStepPc EXCEPT ![s] = "done"]
            /\ stdResults' = [stdResults EXCEPT ![s] =
                                 StepResult("skipped", "none", 0)]
    /\ UNCHANGED <<stdPc, stdLayerIdx, stdOutputs, stdAttempt, stdSem,
                   stdEffects, stdSuccess>>

\* async with self._semaphore, then the limiter's acquire for extract (the
\* bucket of burst 5 is the task's own and full), then the first attempt.
StdAcquirePermit(s) ==
    /\ stdStepPc[s] = "sem"
    /\ stdSem > 0
    /\ stdSem' = stdSem - 1
    /\ stdStepPc' = [stdStepPc EXCEPT ![s] = "fn"]
    /\ UNCHANGED <<stdPc, stdLayerIdx, stdResults, stdOutputs, stdAttempt,
                   stdEffects, stdSuccess>>

\* What a step's fn needs in ctx["step_outputs"]: save_parquet and
\* create_review subscript it with "extract" (KeyError when absent), save_json
\* and record_metrics use .get, extract reads nothing.
StdReads(s) == IF s \in {"save_parquet", "create_review"} THEN {"extract"} ELSE {}

\* What a returning fn has written.
StdWritten(s, eff) ==
    CASE s = "save_parquet" ->
             [eff EXCEPT !.files = Formats, !.cache_row = TRUE]
      [] s = "create_review" -> [eff EXCEPT !.review_item = TRUE]
      [] s = "record_metrics" -> [eff EXCEPT !.metrics = 1]
      [] OTHER -> eff

\* The attempt returns: the output is stored, the result is COMPLETED, the
\* permit is released.
StdFnReturns(s) ==
    /\ stdStepPc[s] = "fn"
    /\ StdReads(s) \subseteq stdOutputs
    /\ stdEffects' = StdWritten(s, stdEffects)
    /\ stdOutputs' = stdOutputs \cup {s}
    /\ stdResults' = [stdResults EXCEPT ![s] =
                         Timed(StepResult("completed", "none",
                                          IF stdAttempt[s] = 0 THEN 0
                                          ELSE stdAttempt[s] - 1))]
    /\ stdSem' = stdSem + 1
    /\ stdStepPc' = [stdStepPc EXCEPT ![s] = "done"]
    /\ UNCHANGED <<stdPc, stdLayerIdx, stdAttempt, stdSuccess>>

\* The steps whose fn can raise or time out although its inputs are there:
\* all but save_json, which only reads a dictionary.
StdCanFail(s) == s # "save_json" \/ ~(StdReads(s) \subseteq stdOutputs)

\* The attempt raises or times out (a missing input is a KeyError at once);
\* save_result may have renamed its JSON file, or both files, before it
\* raised.  A backoff sleep follows if attempts are left, else the result is
\* FAILED and the permit is released.
StdFnFails(s, kind) ==
    /\ stdStepPc[s] = "fn"
    /\ StdCanFail(s)
    /\ StdReads(s) \subseteq stdOutputs \/ kind = "raised"
    /\ IF s = "save_parquet" /\ StdReads(s) \subseteq stdOutputs
       THEN \E written \in {{}, {"json"}, Formats} :
               stdEffects' = [stdEffects EXCEPT !.files = @ \cup written]
       ELSE UNCHANGED stdEffects
    /\ IF stdAttempt[s] < StdMaxRetries[s]
       THEN /\ stdStepPc' = [stdStepPc EXCEPT ![s] = "backoff"]
            /\ UNCHANGED <<stdResults, stdSem>>
       ELSE /\ stdResults' = [stdResults EXCEPT ![s] =
                                 Timed(StepResult("failed", kind, stdAttempt[s]))]
            /\ stdSem' = stdSem + 1
            /\ stdStepPc' = [stdStepPc EXCEPT ![s] = "done"]
    /\ UNCHANGED <<stdPc, stdLayerIdx, stdOutputs, stdAttempt, stdSuccess>>

\* await asyncio.sleep(delay) is over: the next attempt.
StdBackoffOver(s) ==
    /\ stdStepPc[s] = "backoff"
    /\ stdAttempt' = [stdAttempt EXCEPT ![s] = @ + 1]
    /\ stdStepPc' = [stdStepPc EXCEPT ![s] = "fn"]
    /\ UNCHANGED <<stdPc, stdLayerIdx, stdResults, stdOutputs, stdSem,
                   stdEffects, stdSuccess>>

\* if result.success: _update_doc_status("completed")
StdTaskCompletes ==
    /\ stdPc = "returned"
    /\ stdSuccess
    /\ stdEffects' = [stdEffects EXCEPT !.document = "completed"]
    /\ stdPc' = "done"
    /\ UNCHANGED <<stdLayerIdx, stdResults, stdOutputs, stdStepPc, stdAttempt,
                   stdSem, stdSuccess>>

\* else: _update_doc_status("failed", error_msg), and the task returns.
StdTaskFails ==
    /\ stdPc = "returned"
    /\ ~stdSuccess
    /\ stdEffects' = [stdEffects EXCEPT !.document = "failed"]
    /\ stdPc' = "done"
    /\ UNCHANGED <<stdLayerIdx, stdResults, stdOutputs, stdStepPc, stdAttempt,
                   stdSem, stdSuccess>>

StdNext ==
    \/ StdTaskBegin
    \/ StdLaunchLayer
    \/ StdGatherReturns
    \/ StdFinish
    \/ \E s \in StdStepIds : StdEvaluateCondition(s)
    \/ \E s \in StdStepIds : StdAcquirePermit(s)
    \/ \E s \in StdStepIds : StdFnReturns(s)
    \/ \E s \in StdStepIds, kind \in {"raised", "timeout"} : StdFnFails(s, kind)
    \/ \E s \in StdStepIds : StdBackoffOver(s)
    \/ StdTaskCompletes
    \/ StdTaskFails

(***************************************************************************)
(* CircuitBreaker (services/circuit_breaker.py).  Every method runs under  *)
(* self._lock, so each is one step.                                        *)
(***************************************************************************)
CbCallers == 1..MaxCalls
\* recovery_timeout_seconds, in ticks of the clock.
RecoveryTimeout == 1

\* CircuitBreaker.__init__
NewBreaker(failure_threshold, half_open_max_calls) ==
    [failure_threshold   |-> failure_threshold,
     half_open_max_calls |-> half_open_max_calls,
     state               |-> "closed",
     failure_count       |-> 0,
     success_count       |-> 0,
     half_open_calls     |-> 0,
     last_failure_time   |-> 0]

\* A transition that does not reset the counters of the half-open state.
TransitionKeepsProbeCount(b, new_state) ==
    IF new_state = "closed"
    THEN [b EXCEPT !.state = new_state, !.failure_count = 0,
                   !.success_count = 0, !.half_open_calls = 0]
    ELSE [b EXCEPT !.state = new_state]

\* CircuitBreaker._transition
Transition(b, new_state) ==
    IF new_state = "closed"
    THEN [b EXCEPT !.state = new_state, !.failure_count = 0,
                   !.success_count = 0, !.half_open_calls = 0]
    ELSE IF new_state = "half_open"
    THEN [b EXCEPT !.state = new_state, !.half_open_calls = 0,
                   !.success_count = 0]
    ELSE [b EXCEPT !.state = new_state]

\* CircuitBreaker._maybe_transition_to_half_open at time t
MaybeTransitionToHalfOpen(b, t) ==
    IF b.state = "open" /\ t - b.last_failure_time >= RecoveryTimeout
    THEN Transition(b, "half_open")
    ELSE b

\* A record_success that leaves the failure counter of a closed breaker alone.
RecordSuccessKeepsFailures(b) ==
    IF b.state = "half_open"
    THEN LET c == [b EXCEPT !.success_count = @ + 1]
         IN  IF c.success_count >= c.half_open_max_calls
             THEN Transition(c, "closed") ELSE c
    ELSE b

\* CircuitBreaker.record_success
RecordSuccess(b) ==
    IF b.state = "half_open"
    THEN LET c == [b EXCEPT !.success_count = @ + 1]
         IN  IF c.success_count >= c.half_open_max_calls
             THEN Transition(c, "closed") ELSE c
    ELSE IF b.state = "closed"
    THEN [b EXCEPT !.failure_count = 0]
    ELSE b

\* CircuitBreaker.record_failure at time t
RecordFailure(b, t) ==
    LET c == [b EXCEPT !.failure_count = @ + 1, !.last_failure_time = t]
    IN  IF c.state = "half_open" THEN Transition(c, "open")
        ELSE IF c.state = "closed" /\ c.failure_count >= c.failure_threshold
        THEN Transition(c, "open")
        ELSE c

\* CircuitBreaker.allow_request at time t: the breaker it leaves and what it
\* returns.
AllowRequest(b, t) ==
    LET c == MaybeTransitionToHalfOpen(b, t)
    IN  IF c.state = "closed" THEN [breaker |-> c, allowed |-> TRUE]
        ELSE IF c.state = "half_open"
        THEN IF c.half_open_calls < c.half_open_max_calls
             THEN [breaker |-> [c EXCEPT !.half_open_calls = @ + 1],
                   allowed |-> TRUE]
             ELSE [breaker |-> c, allowed |-> FALSE]
        ELSE [breaker |-> c, allowed |-> FALSE]

\* Bookkeeping of the half-open periods over a step that takes the breaker
\* from b to c, admits the calls in admitted and ends the calls in ended.
PeriodBegins(b, c) == b.state # "half_open" /\ c.state = "half_open"
AdmitsAfter(b, c, admitted) ==
    IF c.state # "half_open" THEN 0
    ELSE (IF PeriodBegins(b, c) THEN 0 ELSE periodAdmits)
         + Cardinality(admitted)
ProbesAfter(b, c, admitted, ended) ==
    IF c.state # "half_open" THEN {}
    ELSE ((IF PeriodBegins(b, c) THEN {} ELSE probes) \cup admitted) \ ended

\* The exceptions the guarded operation may raise.
Exceptions == {"ConnectionError", "ValueError"}
\* No "with" statement has ended, or raised, in the last step.
NoScope == [exc_type |-> "none", raised |-> "none"]

\* __exit__ returns False: the exception of the body is not suppressed.
ExitReturns == FALSE
Propagated(exc_type) == IF ExitReturns THEN "none" ELSE exc_type

\* A __enter__ that returns whatever allow_request said.
EnterPcAlways(allowed) == "inside"

\* __enter__ returns self when allow_request allowed the call, and the body
\* runs; it raises CircuitOpenError otherwise, and the body does not run.
EnterPc(allowed) == IF allowed THEN "inside" ELSE "idle"

\* The breaker before any call, with the parameters the other components of
\* the model leave alone.
CbFresh ==
    /\ monotonic = 0
    /\ callPc = [p \in CbCallers |-> "idle"]
    /\ cbLast = [op |-> "init", result |-> "none"]
    /\ cbScope = NoScope
    /\ consecutiveFailures = 0
    /\ periodAdmits = 0
    /\ probes = {}
    /\ probeSuccesses = 0

CbIdle ==
    /\ breaker = NewBreaker(1, 1)
    /\ CbFresh

CbInit ==
    /\ \E ft \in 1..MaxThreshold, hm \in 1..MaxProbes :
           breaker = NewBreaker(ft, hm)
    /\ CbFresh

\* "with breaker:" is entered by call p: __enter__ asks allow_request and
\* raises CircuitOpenError when it returns False.
Enter(p) ==
    /\ callPc[p] = "idle"
    /\ LET r == AllowRequest(breaker, monotonic)
           admitted == IF r.allowed THEN {p} ELSE {}
       IN  /\ breaker' = r.breaker
           /\ callPc' = [callPc EXCEPT ![p] = EnterPc(r.allowed)]
           /\ cbScope' = [NoScope EXCEPT
                  !.raised = IF r.allowed THEN "none" ELSE "CircuitOpenError"]
           /\ cbLast' = [op |-> "allow_request",
                         result |-> IF r.allowed THEN "True" ELSE "False"]
           /\ periodAdmits' = AdmitsAfter(breaker, r.breaker, admitted)
           /\ probes' = ProbesAfter(breaker, r.breaker, admitted, {})
           /\ probeSuccesses' =
                  IF PeriodBegins(breaker, r.breaker) THEN 0
                  ELSE probeSuccesses
    /\ UNCHANGED <<monotonic, consecutiveFailures>>

\* The body of call p ends without an exception: __exit__ records a success.
ExitSuccess(p) ==
    /\ callPc[p] = "inside"
    /\ LET c == RecordSuccess(breaker)
       IN  /\ breaker' = c
           /\ periodAdmits' = AdmitsAfter(breaker, c, {})
           /\ probes' = ProbesAfter(breaker, c, {}, {p})
    /\ callPc' = [callPc EXCEPT ![p] = "idle"]
    /\ cbLast' = [op |-> "record_success", result |-> "none"]
    /\ cbScope' = [exc_type |-> "None", raised |-> "none"]
    /\ consecutiveFailures' = 0
    /\ probeSuccesses' = IF p \in probes THEN probeSuccesses + 1
                         ELSE probeSuccesses
    /\ UNCHANGED monotonic

\* The body of call p raises: __exit__ records a failure.
ExitFailure(p) ==
    /\ callPc[p] = "inside"
    /\ LET c == RecordFailure(breaker, monotonic)
       IN  /\ breaker' = c
           /\ periodAdmits' = AdmitsAfter(breaker, c, {})
           /\ probes' = ProbesAfter(breaker, c, {}, {p})
    /\ callPc' = [callPc EXCEPT ![p] = "idle"]
    /\ cbLast' = [op |-> "record_failure", result |-> "none"]
    /\ \E exc \in Exceptions :
           cbScope' = [exc_type |-> exc, raised |-> Propagated(exc)]
    /\ consecutiveFailures' = consecutiveFailures + 1
    /\ UNCHANGED <<monotonic, probeSuccesses>>

\* The state property is read.
ReadState ==
    /\ LET c == MaybeTransitionToHalfOpen(breaker, monotonic)
       IN  /\ breaker' = c
           /\ cbLast' = [op |-> "state", result |-> c.state]
           /\ cbScope' = NoScope
           /\ periodAdmits' = AdmitsAfter(breaker, c, {})
           /\ probes' = ProbesAfter(breaker, c, {}, {})
           /\ probeSuccesses' =
                  IF PeriodBegins(breaker, c) THEN 0 ELSE probeSuccesses
    /\ UNCHANGED <<monotonic, callPc, consecutiveFailures>>

\* CircuitBreaker.reset
Reset ==
    /\ breaker' = Transition(breaker, "closed")
    /\ cbLast' = [op |-> "reset", result |-> "none"]
    /\ cbScope' = NoScope
    /\ consecutiveFailures' = 0
    /\ periodAdmits' = 0
    /\ probes' = {}
    /\ UNCHANGED <<monotonic, callPc, probeSuccesses>>

\* time.monotonic() advances.
CbTick ==
    /\ monotonic < MaxClock
    /\ monotonic' = monotonic + 1
    /\ UNCHANGED <<breaker, callPc, cbLast, cbScope, consecutiveFailures,
                   periodAdmits, probes, probeSuccesses>>

CbNext ==
    \/ \E p \in CbCallers : Enter(p)
    \/ \E p \in CbCallers : ExitSuccess(p)
    \/ \E p \in CbCallers : ExitFailure(p)
    \/ ReadState
    \/ Reset
    \/ CbTick

(***************************************************************************)
(* TokenBucketRateLimiter (services/workflow_executor.py).  _tokens is a   *)
(* float: it is kept in units of 1/TokenUnit of a token, and the rate is   *)
(* RatePerTick such units per tick of the clock, so that elapsed * rate is *)
(* exact.  The body of "async with self._lock" has no await: it is one     *)
(* step.                                                                   *)
(***************************************************************************)
Acquirers == 1..MaxAcquirers
\* One token (the 1.0 of acquire), in units of _tokens.
TokenUnit == 2
\* self._rate, in units of _tokens per tick: half a token per tick.
RatePerTick == 1
\* 1.0 / self._rate, in ticks.
SleepTicks == TokenUnit \div RatePerTick

\* TokenBucketRateLimiter.__init__ at time 0
NewBucket == [tokens |-> TokenUnit * Burst, last_refill |-> 0]

\* self._tokens = min(self._burst, self._tokens + elapsed * self._rate);
\* self._last_refill = now
Refill(b, t) ==
    LET elapsed == t - b.last_refill
        filled == b.tokens + elapsed * RatePerTick
    IN  [tokens |-> IF filled > TokenUnit * Burst THEN TokenUnit * Burst
                    ELSE filled,
         last_refill |-> t]

\* A test that grants on any fraction of a token.
HasTokenAnyFraction(b) == b.tokens > 0

\* if self._tokens >= 1.0
HasToken(b) == b.tokens >= TokenUnit

LimIdle ==
    /\ bucket = NewBucket
    /\ limNow = 0
    /\ acqPc = [p \in Acquirers |-> "idle"]
    /\ wakeAt = [p \in Acquirers |-> 0]
    /\ granted = 0

\* One pass of the loop of acquire() by p, called afresh or woken from its
\* sleep: refill, then take a token and return, or sleep 1/rate.
AcquireTry(p) ==
    /\ acqPc[p] = "sleeping" => limNow >= wakeAt[p]
    /\ LET b == Refill(bucket, limNow)
       IN  IF HasToken(b)
           THEN /\ bucket' = [b EXCEPT !.tokens = @ - TokenUnit]
                /\ granted' = granted + 1
                /\ acqPc' = [acqPc EXCEPT ![p] = "idle"]
                /\ wakeAt' = [wakeAt EXCEPT ![p] = 0]
           ELSE /\ bucket' = b
                /\ granted' = granted
                /\ acqPc' = [acqPc EXCEPT ![p] = "sleeping"]
                /\ wakeAt' = [wakeAt EXCEPT ![p] = limNow + SleepTicks]
    /\ UNCHANGED limNow

\* time.monotonic() advances.
LimTick ==
    /\ limNow < MaxTicks
    /\ limNow' = limNow + 1
    /\ UNCHANGED <<bucket, acqPc, wakeAt, granted>>

LimNext ==
    \/ \E p \in Acquirers : AcquireTry(p)
    \/ LimTick

(***************************************************************************)
(* Specifications.                                                         *)
(***************************************************************************)
\* Building a graph with add_step and validating it.
InitDag == DagInit /\ ExecIdle /\ RvIdle /\ WkIdle /\ CbIdle /\ LimIdle /\ TxIdle /\ SvIdle /\ MonIdle /\ SubIdle /\ StdIdle
    /\ submitCall = NoSubmit /\ rvReturn = NoReturn
NextDag == DagNext /\ UNCHANGED <<execVars, rvVars, wkVars, cbVars, limVars, txVars, submitCall, rvReturn, svVars, monVars, subTx, stdVars>>
SpecDag == InitDag /\ [][NextDag]_vars

\* One execute() of a WorkflowExecutor.
Init == ExecInit /\ RvIdle /\ WkIdle /\ CbIdle /\ LimIdle /\ TxIdle /\ SvIdle /\ MonIdle /\ SubIdle /\ StdIdle
    /\ submitCall = NoSubmit /\ rvReturn = NoReturn
Next == ExecNext /\ UNCHANGED <<rvVars, wkVars, cbVars, limVars, txVars, submitCall, rvReturn, svVars, monVars, subTx, stdVars>>
Spec == Init /\ [][Next]_vars

\* One execute() on an event loop that runs a coroutine that is ready and
\* ends every sleep, with every fn invocation ending: while some step of
\* execute() or of a coroutine can be taken, one is taken.
InitLive == ExecInit /\ RvIdle /\ WkIdle /\ CbIdle /\ LimIdle /\ TxIdle /\ SvIdle /\ MonIdle /\ SubIdle /\ StdIdle
    /\ submitCall = NoSubmit /\ rvReturn = NoReturn
NextLive == ExecNext /\ UNCHANGED <<rvVars, wkVars, cbVars, limVars, txVars, submitCall, rvReturn, svVars, monVars, subTx, stdVars>>
SpecLive == InitLive /\ [][NextLive]_vars /\ WF_vars(NextLive)

\* The review queue from the empty database.
InitReview == DagInit /\ ExecIdle /\ RvIdle /\ WkIdle /\ CbIdle /\ LimIdle /\ TxIdle /\ SvIdle /\ MonIdle /\ SubIdle /\ StdIdle
    /\ submitCall = NoSubmit /\ rvReturn = NoReturn
NextReview == RvNext /\ UNCHANGED <<wkVars, cbVars, limVars, txVars, submitCall, rvReturn, svVars, monVars, subTx, stdVars>>
SpecReview == InitReview /\ [][NextReview]_vars

\* claim_item calls racing for the materialized items.
InitClaim == DagInit /\ ExecIdle /\ ClaimInit /\ WkIdle /\ CbIdle /\ LimIdle /\ TxIdle /\ SvIdle /\ MonIdle /\ SubIdle /\ StdIdle
    /\ submitCall = NoSubmit /\ rvReturn = NoReturn
NextClaim == ClaimNext /\ UNCHANGED <<wkVars, cbVars, limVars, txVars, submitCall, rvReturn, svVars, monVars, subTx, stdVars>>
SpecClaim == InitClaim /\ [][NextClaim]_vars

\* claim_item calls on items that are absent, pending, in review or completed.
InitClaimAny == DagInit /\ ExecIdle /\ ClaimAnyInit /\ WkIdle /\ CbIdle /\ LimIdle /\ TxIdle /\ SvIdle /\ MonIdle /\ SubIdle /\ StdIdle
    /\ submitCall = NoSubmit /\ rvReturn = NoReturn
SpecClaimAny == InitClaimAny /\ [][NextClaim]_vars

\* submit_review calls, committed or failed, on items in any status.
InitSubmit == DagInit /\ ExecIdle /\ SubmitInit /\ WkIdle /\ CbIdle /\ LimIdle /\ TxIdle /\ SvIdle /\ MonIdle /\ SubIdle /\ StdIdle
    /\ rvReturn = NoReturn
NextSubmit == SubmitNext /\ UNCHANGED <<wkVars, cbVars, limVars, txVars, rvReturn, svVars, monVars, subTx, stdVars>>
SpecSubmit == InitSubmit /\ [][NextSubmit]_vars

\* release_expired_claims, claims and the clock, from items in any status.
InitRelease == InitClaimAny
NextRelease == ReleaseNext /\ UNCHANGED <<wkVars, cbVars, limVars, txVars, submitCall, svVars, monVars, subTx, stdVars>>
SpecRelease == InitRelease /\ [][NextRelease]_vars

\* One claim_item, one submit_review and one auto_assign racing on two
\* pending items.
InitRace == DagInit /\ ExecIdle /\ RaceInit /\ WkIdle /\ CbIdle /\ LimIdle /\ SvIdle /\ MonIdle /\ SubIdle /\ StdIdle
    /\ submitCall = NoSubmit /\ rvReturn = NoReturn /\ TxIdle
NextRace == RaceNext /\ UNCHANGED <<wkVars, cbVars, limVars, submitCall, rvReturn, svVars, monVars, subTx, stdVars>>
SpecRace == InitRace /\ [][NextRace]_vars

\* save_result calls for two extracted documents, with failing writes.
InitSave == DagInit /\ ExecIdle /\ RvIdle /\ SaveInit /\ CbIdle /\ LimIdle /\ TxIdle
    /\ submitCall = NoSubmit /\ rvReturn = NoReturn /\ MonIdle /\ SubIdle /\ StdIdle
NextSave == SaveNext /\ UNCHANGED <<dagVars, execVars, rvVars, cbVars, limVars, txVars, submitCall, rvReturn, monVars, subTx, stdVars>>
SpecSave == InitSave /\ [][NextSave]_vars

\* One MonitoringService recording events and reporting as time passes.
InitMonitor == DagInit /\ ExecIdle /\ RvIdle /\ WkIdle /\ CbIdle /\ LimIdle /\ TxIdle
    /\ submitCall = NoSubmit /\ rvReturn = NoReturn /\ SvIdle /\ MonIdle /\ SubIdle /\ StdIdle
NextMonitor == MonNext /\ UNCHANGED <<dagVars, execVars, rvVars, wkVars, cbVars, limVars, txVars, submitCall, rvReturn, svVars, subTx, stdVars>>
SpecMonitor == InitMonitor /\ [][NextMonitor]_vars

\* Two submit_review transactions, each with one correction.
InitSub == DagInit /\ ExecIdle /\ SubInit /\ WkIdle /\ CbIdle /\ LimIdle /\ TxIdle
    /\ submitCall = NoSubmit /\ rvReturn = NoReturn /\ SvIdle /\ MonIdle /\ SubIdle /\ StdIdle
NextSub == SubNext /\ UNCHANGED <<wkVars, cbVars, limVars, txVars, submitCall, rvReturn, svVars, monVars, stdVars>>
SpecSub == InitSub /\ [][NextSub]_vars

\* The tasks of the uploaded documents, from the empty database.
InitWorker == DagInit /\ ExecIdle /\ RvIdle /\ WkInit /\ CbIdle /\ LimIdle /\ TxIdle /\ SvIdle /\ MonIdle /\ SubIdle /\ StdIdle
    /\ submitCall = NoSubmit /\ rvReturn = NoReturn
NextWorker == WkNext /\ UNCHANGED <<cbVars, limVars, txVars, submitCall, rvReturn, svVars, monVars, subTx, stdVars>>
SpecWorker == InitWorker /\ [][NextWorker]_vars

\* Calls guarded by one CircuitBreaker, with reads of its state, manual
\* resets and the passing of time.
InitBreaker == DagInit /\ ExecIdle /\ RvIdle /\ WkIdle /\ CbInit /\ LimIdle /\ TxIdle /\ SvIdle /\ MonIdle /\ SubIdle /\ StdIdle
    /\ submitCall = NoSubmit /\ rvReturn = NoReturn
NextBreaker == CbNext /\ UNCHANGED <<dagVars, execVars, rvVars, wkVars, limVars, txVars, submitCall, rvReturn, svVars, monVars, subTx, stdVars>>
SpecBreaker == InitBreaker /\ [][NextBreaker]_vars

\* One task running the standard document-processing DAG.
InitStd == DagInit /\ ExecIdle /\ RvIdle /\ WkIdle /\ CbIdle /\ LimIdle /\ TxIdle /\ SvIdle /\ MonIdle /\ SubIdle /\ StdInit
    /\ submitCall = NoSubmit /\ rvReturn = NoReturn
NextStd == StdNext /\ UNCHANGED <<dagVars, execVars, rvVars, wkVars, cbVars, limVars, txVars, submitCall, rvReturn, svVars, monVars, subTx>>
SpecStd == InitStd /\ [][NextStd]_vars

\* Coroutines calling acquire() on one TokenBucketRateLimiter as time passes.
InitLimiter == DagInit /\ ExecIdle /\ RvIdle /\ WkIdle /\ CbIdle /\ LimIdle /\ TxIdle /\ SvIdle /\ MonIdle /\ SubIdle /\ StdIdle
    /\ submitCall = NoSubmit /\ rvReturn = NoReturn
NextLimiter ==
    LimNext /\ UNCHANGED <<dagVars, execVars, rvVars, wkVars, cbVars,
                           submitCall, rvReturn, txVars, svVars, monVars,
                           subTx, stdVars>>
SpecLimiter == InitLimiter /\ [][NextLimiter]_vars

(***************************************************************************)
(* What the graph is, stated without the algorithm.                        *)
(***************************************************************************)
\* s lists d in depends_on.
DependsOn(g, s, d) == s \in StepSet(g) /\ d \in Range(g.depends_on[s])

\* The steps s reaches by following depends_on one or more times.
RECURSIVE ReachFrom(_, _, _)
ReachFrom(g, frontier, seen) ==
    LET nxt == {d \in StepSet(g) : \E s \in frontier : DependsOn(g, s, d)} \ seen
    IN  IF nxt = {} THEN seen ELSE ReachFrom(g, nxt, seen \cup nxt)

Ancestors(g, s) == ReachFrom(g, {s}, {})

Acyclic(g) == \A s \in StepSet(g) : s \notin Ancestors(g, s)
AllDepsKnown(g) ==
    \A s \in StepSet(g) : Range(g.depends_on[s]) \subseteq StepSet(g)
WellFormed(g) == g.steps # <<>> /\ AllDepsKnown(g) /\ Acyclic(g)
UnknownDepCount(g) ==
    LET RECURSIVE Sum(_)
        Sum(order) == IF order = <<>> THEN 0
                      ELSE (Len(g.depends_on[Head(order)])
                            - CountIn(g.depends_on[Head(order)], StepSet(g)))
                           + Sum(Tail(order))
    IN Sum(g.steps)

\* The errors validate() owes a graph for its empty step list and for its
\* dependencies on unknown steps.
ReportsEmptyAndMissing ==
    /\ dag.steps = <<>> => errors = <<[kind |-> "empty"]>>
    /\ (dag.steps # <<>> /\ ~AllDepsKnown(dag)) =>
          /\ Len(errors) = UnknownDepCount(dag)
          /\ \A s \in StepSet(dag) :
               \A d \in Range(dag.depends_on[s]) \ StepSet(dag) :
                  \E i \in DOMAIN errors :
                     errors[i] = [kind |-> "missing", step |-> s, dep |-> d]

RECURSIVE Flatten(_)
Flatten(ls) == IF ls = <<>> THEN <<>> ELSE Head(ls) \o Flatten(Tail(ls))
Occurrences(s, l) == Cardinality({i \in DOMAIN l : l[i] = s})
LayerOf(ls, s) == CHOOSE k \in DOMAIN ls : s \in Range(ls[k])
PositionOf(l, s) == CHOOSE i \in DOMAIN l : l[i] = s
MaxOf(S) == CHOOSE m \in S : \A n \in S : n <= m

\* C11: for a valid graph get_execution_layers returns layers that partition
\* the steps (every step in exactly one layer, no layer empty), the first
\* layer is the set of steps without dependencies, and every other step is in
\* the layer right after the latest layer holding one of its dependencies;
\* topological_sort lists every step exactly once, after all its
\* dependencies.  Neither raises for a valid graph.
C11_LayersAndOrder ==
    /\ dagPc = "raised" => ~WellFormed(dag)
    /\ dagPc = "layered" =>
          /\ \A k \in DOMAIN dagOut : dagOut[k] # <<>>
          /\ \A s \in StepIds :
                Occurrences(s, Flatten(dagOut)) = (IF s \in StepSet(dag) THEN 1 ELSE 0)
          /\ \A s \in StepSet(dag) :
                LayerOf(dagOut, s) =
                    (IF dag.depends_on[s] = <<>> THEN 1
                     ELSE 1 + MaxOf({LayerOf(dagOut, d) :
                                       d \in Range(dag.depends_on[s])}))
    /\ dagPc = "sorted" =>
          /\ \A s \in StepIds :
                Occurrences(s, dagOut) = (IF s \in StepSet(dag) THEN 1 ELSE 0)
          /\ \A s \in StepSet(dag) : \A d \in Range(dag.depends_on[s]) :
                PositionOf(dagOut, d) < PositionOf(dagOut, s)

\* get_execution_layers has put c, which depends on a (first layer) and on b
\* (second layer), into the third layer.
C11_Witness ==
    /\ dagPc = "layered"
    /\ Len(dagOut) = 3
    /\ DependsOn(dag, "c", "a") /\ DependsOn(dag, "c", "b")
    /\ DependsOn(dag, "b", "a")
    /\ dagOut[3] = <<"c">>

(***************************************************************************)
(* Properties of the executor.                                             *)
(***************************************************************************)
\* The step's coroutine exists, or its fn has been invoked.
Started(s) == stepPc[s] # "idle" \/ fnCalls[s] > 0

\* C5: no step of layer k+1 starts (no coroutine for it, no condition
\* evaluated, no fn invoked) before every step of layer k has a result that
\* is COMPLETED, FAILED or SKIPPED.
C5_LayerBarrier ==
    \A k \in DOMAIN layers :
        (k + 1) \in DOMAIN layers =>
            \A s \in Range(layers[k + 1]), t \in Range(layers[k]) :
                Started(s) => results[t].status \in Terminal

\* A second-layer step is inside fn after a first layer of two steps.
C5_Witness ==
    /\ Len(layers) >= 2
    /\ Len(layers[1]) = 2
    /\ \E s \in Range(layers[2]) : stepPc[s] = "fn"

HasFailedDep(s) ==
    \E d \in StepSet(dag) : DependsOn(dag, s, d) /\ results[d].status = "failed"

\* C6: a step that lists a FAILED step in depends_on never has its fn invoked
\* and, when execute() returns, is SKIPPED with error "Dependency failed"; a
\* step none of whose dependencies FAILED has run to a result of its own; and
\* the workflow's success is false once any step FAILED.
C6_FailurePropagation ==
    /\ \A s \in StepSet(dag) : HasFailedDep(s) => fnCalls[s] = 0
    /\ execPc = "returned" =>
          \A s \in StepSet(dag) :
             /\ HasFailedDep(s) =>
                   results[s] = StepResult("skipped", "Dependency failed", 0)
             /\ ~HasFailedDep(s) =>
                   /\ stepPc[s] = "done"
                   /\ results[s].status \in Terminal
                   /\ results[s].error # "Dependency failed"
             /\ results[s].status = "failed" => wfResult.success = FALSE

\* a FAILED after its attempts, b depends on a and is SKIPPED, c is
\* independent and COMPLETED.
C6_Witness ==
    /\ execPc = "returned"
    /\ results["a"].status = "failed" /\ fnCalls["a"] > 0
    /\ dag.depends_on["b"] = <<"a">> /\ results["b"].status = "skipped"
    /\ dag.depends_on["c"] = <<>> /\ results["c"].status = "completed"
    /\ wfResult.success = FALSE

Invoking == {s \in StepIds : stepPc[s] = "fn"}

\* C7: at every instant the number of steps whose fn is being invoked is at
\* most max_concurrency.
C7_ConcurrencyCap ==
    /\ Cardinality(Invoking) <= max_concurrency
    /\ sem >= 0

\* Two steps are inside fn with max_concurrency = 2 while a third waits for
\* a permit.
C7_Witness ==
    /\ max_concurrency = 2
    /\ Cardinality(Invoking) = 2
    /\ \E s \in StepIds : stepPc[s] = "sem"
    /\ sem = 0

\* C8: fn is invoked at most max_retries+1 times; a COMPLETED step has
\* retries_used equal to the number of attempts that failed before the
\* success; a step FAILED by its attempts has failed max_retries+1 times; a
\* backoff sleep precedes every retry and never the first attempt.
C8_RetryAccounting ==
    \A s \in StepIds :
        /\ fnCalls[s] <= max_retries[s] + 1
        /\ results[s].status = "completed" =>
              /\ fnCalls[s] = failedAttempts[s] + 1
              /\ results[s].retries_used = failedAttempts[s]
        /\ (results[s].status = "failed" /\ results[s].error \in {"raised", "timeout"}) =>
              /\ failedAttempts[s] = max_retries[s] + 1
              /\ fnCalls[s] = max_retries[s] + 1
        /\ sleeps[s] = (IF stepPc[s] = "backoff" THEN fnCalls[s]
                        ELSE IF fnCalls[s] = 0 THEN 0 ELSE fnCalls[s] - 1)

\* C9: execute() on a graph for which validate() reports an error (an empty
\* graph, an unknown dependency, a cycle) raises ValueError; no coroutine is created, no condition or fn is invoked, no
\* permit and no token is taken.
C9_InvalidDagRaises ==
    (execPc # "idle" /\ (Validate(dag) # <<>> \/ ~WellFormed(dag))) =>
        /\ execPc = "raised"
        /\ \A s \in StepIds :
              /\ stepPc[s] = "idle"
              /\ results[s] = NoResult
              /\ fnCalls[s] = 0
              /\ tokensTaken[s] = 0
        /\ step_outputs = {}
        /\ sem = max_concurrency
        /\ tokens = Burst

\* execute() has raised for a graph of three known steps with a cycle.
C9_Witness ==
    /\ execPc = "raised"
    /\ Len(dag.steps) = 3
    /\ AllDepsKnown(dag)
    /\ ~Acyclic(dag)

\* C12: a step whose condition returned False is SKIPPED with zero duration,
\* its fn is never invoked and it takes no permit and no token; a step whose
\* condition raised is FAILED with "Condition evaluation failed" and its fn is
\* never invoked; a step whose condition returned True (or that has none) has,
\* when execute() returns, gone through its attempts to COMPLETED or FAILED.
C12_ConditionRouting ==
    \A s \in StepIds :
        /\ condition[s] = "false" =>
              /\ results[s].status = "skipped"
              /\ results[s].error = "none"
              /\ results[s].duration_seconds = "zero"
              /\ fnCalls[s] = 0 /\ permitsTaken[s] = 0 /\ tokensTaken[s] = 0
        /\ condition[s] = "raised" =>
              /\ results[s].status = "failed"
              /\ results[s].error = "Condition evaluation failed"
              /\ fnCalls[s] = 0 /\ permitsTaken[s] = 0 /\ tokensTaken[s] = 0
        /\ (condition[s] = "passed" /\ execPc = "returned") =>
              /\ fnCalls[s] >= 1 /\ permitsTaken[s] = 1
              /\ results[s].status \in {"completed", "failed"}
              /\ results[s].error \in {"none", "raised", "timeout"}

\* execute() has returned: the condition of a returned False, that of b
\* raised and that of c returned True, and c ran to COMPLETED.
C12_Witness ==
    /\ execPc = "returned"
    /\ condition["a"] = "false" /\ results["a"].status = "skipped"
    /\ condition["b"] = "raised" /\ results["b"].status = "failed"
    /\ condition["c"] = "passed" /\ results["c"].status = "completed"

\* C13 as claimed: whenever the fn of a step is being invoked, step_outputs
\* holds the output of every step of its depends_on, and the context holds
\* every key the caller supplied.
C13_SeesEveryDependencyOutput ==
    \A s \in StepIds :
        stepPc[s] = "fn" =>
            /\ Range(dag.depends_on[s]) \subseteq MergedCtx.step_outputs
            /\ ContextKeys \subseteq MergedCtx.keys

\* C13: whenever the fn of a step is being invoked, every step of its
\* depends_on has ended COMPLETED or SKIPPED, step_outputs holds the output of
\* each one that COMPLETED, and the context holds every key the caller
\* supplied.
C13_SeesCompletedDependencyOutputs ==
    \A s \in StepIds :
        stepPc[s] = "fn" =>
            /\ \A d \in Range(dag.depends_on[s]) :
                  /\ results[d].status \in {"completed", "skipped"}
                  /\ results[d].status = "completed" =>
                        d \in MergedCtx.step_outputs
            /\ ContextKeys \subseteq MergedCtx.keys

\* c, which depends on a and b, is inside fn after a COMPLETED and the
\* condition of b returned False.
C13_Witness ==
    /\ stepPc["c"] = "fn"
    /\ DependsOn(dag, "c", "a") /\ DependsOn(dag, "c", "b")
    /\ results["a"].status = "completed" /\ "a" \in step_outputs
    /\ results["b"].status = "skipped" /\ "b" \notin step_outputs

StepsWith(st) == {s \in StepSet(dag) : results[s].status = st}

\* C14: when execute() returns, every step of the graph has one result, whose
\* status is COMPLETED, FAILED or SKIPPED, no other id has a result,
\* completed_count, failed_count and skipped_count are the numbers of results
\* with those statuses and add up to the number of steps, and success is true
\* exactly when failed_count is 0.
C14_ResultAggregation ==
    execPc = "returned" =>
        /\ \A s \in StepSet(dag) : results[s].status \in Terminal
        /\ \A s \in StepIds \ StepSet(dag) : results[s] = NoResult
        /\ wfResult.completed_count = Cardinality(StepsWith("completed"))
        /\ wfResult.failed_count = Cardinality(StepsWith("failed"))
        /\ wfResult.skipped_count = Cardinality(StepsWith("skipped"))
        /\ wfResult.completed_count + wfResult.failed_count
              + wfResult.skipped_count = Len(dag.steps)
        /\ wfResult.success <=> (wfResult.failed_count = 0)

\* execute() has returned for three steps, one COMPLETED, one FAILED and one
\* SKIPPED.
C14_Witness ==
    /\ execPc = "returned"
    /\ Len(dag.steps) = 3
    /\ wfResult.completed_count = 1
    /\ wfResult.failed_count = 1
    /\ wfResult.skipped_count = 1
    /\ wfResult.success = FALSE

\* C15: a step whose resource_tag has a registered limiter takes the
\* concurrency permit, then a token of the limiter, then invokes fn: it holds
\* no token before it has the permit, and its fn is not invoked before it has
\* both.  A step with no resource_tag, or with a tag no limiter is registered
\* for, takes the permit and invokes fn without taking a token.
C15_PermitTokenFn ==
    \A s \in StepIds :
        /\ tokensTaken[s] <= permitsTaken[s]
        /\ permitsTaken[s] <= 1
        /\ stepPc[s] = "limiter" => (tokensTaken[s] = 0 /\ fnCalls[s] = 0)
        /\ fnCalls[s] > 0 =>
              /\ permitsTaken[s] = 1
              /\ tokensTaken[s] = (IF resource_tag[s] \in RateLimiters THEN 1 ELSE 0)
        /\ resource_tag[s] \notin RateLimiters => tokensTaken[s] = 0
        /\ (\A u \in StepIds : resource_tag[u] \notin RateLimiters) => tokens = Burst

\* b, tagged gemini_api, is inside fn with its permit and its token while c,
\* untagged, is inside fn with a permit and no token.
C15_Witness ==
    /\ resource_tag["b"] = "gemini_api" /\ stepPc["b"] = "fn"
    /\ permitsTaken["b"] = 1 /\ tokensTaken["b"] = 1
    /\ resource_tag["c"] = "none" /\ stepPc["c"] = "fn"
    /\ permitsTaken["c"] = 1 /\ tokensTaken["c"] = 0

\* The index of the layer a step is in.
LayerIndex(s) == CHOOSE k \in DOMAIN layers : s \in Range(layers[k])

\* C16: once a step of some layer has ended FAILED, the launched steps of
\* that layer run to completion, and no step of a later layer is started.
C16_NoLayerAfterFailure ==
    \A s \in Range(Flatten(layers)) :
        results[s].status = "failed" =>
            \A u \in Range(Flatten(layers)) :
                /\ (LayerIndex(u) = LayerIndex(s) /\ Started(u)
                        /\ execPc = "returned") =>
                      (stepPc[u] = "done" /\ results[u].status \in Terminal)
                /\ LayerIndex(u) > LayerIndex(s) => ~Started(u)

\* C17: every step result has retries_used <= max_retries, and a FAILED step
\* has retries_used = max_retries unless it FAILED on the one error that is
\* never retried, the evaluation of its condition.
C17_RetriesWithinBudget ==
    \A s \in StepIds :
        results[s].status \in Terminal =>
            /\ results[s].retries_used <= max_retries[s]
            /\ (results[s].status = "failed"
                    /\ results[s].retries_used < max_retries[s]) =>
                  /\ results[s].error = "Condition evaluation failed"
                  /\ fnCalls[s] = 0

\* A step with max_retries = 1 has ended FAILED after two attempts, with
\* retries_used = 1.
C17_Witness ==
    \E s \in StepIds :
        /\ results[s].status = "failed"
        /\ max_retries[s] = 1
        /\ fnCalls[s] = 2
        /\ results[s].retries_used = 1

(***************************************************************************)
(* Properties of the review queue.                                         *)
(***************************************************************************)
\* The claim_item calls made for an item, and those that returned the item.
Callers(i) == {p \in Claimers : claimArgs[p].item_id = i}
Winners(i) == {p \in Callers(i) : claimResult[p] = "item"}
StartReviews(i) ==
    Len(SelectSeq(audit_log,
                  LAMBDA e : e.item_id = i /\ e.action = "start_review"))

\* C1: of the claim_item calls racing for one pending item, under every
\* interleaving of their transactions, exactly one returns the item and every
\* other returns None; the item ends in_review assigned to the winner, and
\* exactly one start_review audit entry is written for it.
C1_ExactlyOneClaimWins ==
    \A i \in ItemIds :
        /\ Cardinality(Winners(i)) <= 1
        /\ StartReviews(i) <= 1
        /\ (Callers(i) # {} /\ \A p \in Callers(i) : claimPc[p] = "returned") =>
              /\ Cardinality(Winners(i)) = 1
              /\ \A p \in Callers(i) \ Winners(i) : claimResult[p] = "None"
              /\ review_items[i].status = "in_review"
              /\ \A w \in Winners(i) :
                    review_items[i].assigned_to = claimArgs[w].reviewer_id
              /\ StartReviews(i) = 1

\* Two calls by different reviewers for d1 have both returned: one with the
\* item, one with None.
C1_Witness ==
    /\ claimPc[1] = "returned" /\ claimPc[2] = "returned"
    /\ claimArgs[1].item_id = "d1" /\ claimArgs[2].item_id = "d1"
    /\ claimArgs[1].reviewer_id # claimArgs[2].reviewer_id
    /\ claimResult[1] = "None" /\ claimResult[2] = "item"
    /\ review_items["d1"].assigned_to = claimArgs[2].reviewer_id

\* C2: a field that is locked keeps its row, its value and its lock through
\* every later submit_review and every re-materialization of its item.
C2_LockedFieldKept ==
    [][\A i \in ItemIds, f \in FieldNames :
          (extracted_fields[i][f].present /\ extracted_fields[i][f].locked) =>
              /\ extracted_fields'[i][f].present
              /\ extracted_fields'[i][f].locked
              /\ extracted_fields'[i][f].value = extracted_fields[i][f].value]_vars

\* The field of d1 was locked with v2 by a correction, the item was then
\* auto-assigned, and create_review_item has since run on it again.
C2_Witness ==
    /\ Len(audit_log) = 2
    /\ audit_log[1] =
           Valued(AuditEntry("d1", "correction", "r1", "f1"), "v1", "v2")
    /\ audit_log[2].action = "auto_assign"
    /\ assignPending = "d1"
    /\ extracted_fields["d1"]["f1"].present
    /\ extracted_fields["d1"]["f1"].locked
    /\ extracted_fields["d1"]["f1"].value = "v2"

TerminalStatuses == {"approved", "corrected", "rejected"}

\* C3: once the status of a review item is approved, corrected or rejected,
\* no operation changes it again.
C3_TerminalAbsorbing ==
    [][\A i \in ItemIds :
          review_items[i].status \in TerminalStatuses =>
              review_items'[i].status = review_items[i].status]_vars
(***************************************************************************)
(* Properties of the worker.                                               *)
(***************************************************************************)
\* The task of d leaves its cache lookup.
LeavesLookup(d) == workerPc[d] = "lookup" /\ workerPc'[d] # "lookup"

\* C4: a task whose file has the bytes of an already cached document, unless
\* its lookup raises, marks its document duplicate and returns the cached
\* result with the document_id and filename of the new upload; it runs no
\* extraction and no DAG step, creates or changes no review item, and leaves
\* the cache row of that hash as it was, naming the original document.
C4_DuplicateSkipsProcessing ==
    [][\A d \in ItemIds :
          (LeavesLookup(d) /\ processed_documents[content[d]] # NoRow
              /\ documents'[d] # "failed") =>
              /\ documents'[d] = "duplicate"
              /\ workerPc'[d] = "done"
              /\ extracted'[d] = NoExtraction
              /\ processed_documents' = processed_documents
              /\ review_items' = review_items
              /\ extracted_fields' = extracted_fields
              /\ audit_log' = audit_log
              /\ taskResult'[d].document_id = d
              /\ taskResult'[d].filename = StoredFilename(d)
              /\ taskResult'[d].content_hash = content[d]
              /\ taskResult'[d].field_confidences =
                     processed_documents[content[d]].result_json.field_confidences]_vars

\* d1 was processed and cached; d2, with the same bytes, ended duplicate
\* with the cached fields under its own document_id, and has no review item.
C4_Witness ==
    /\ content["d1"] = content["d2"]
    /\ documents["d1"] = "completed"
    /\ documents["d2"] = "duplicate"
    /\ workerPc["d2"] = "done"
    /\ processed_documents[content["d2"]].document_id = "d1"
    /\ taskResult["d2"].document_id = "d2"
    /\ taskResult["d2"].filename = StoredFilename("d2")
    /\ taskResult["d2"].field_confidences = taskResult["d1"].field_confidences
    /\ taskResult["d2"].field_confidences["f1"] = "v2"
    /\ review_items["d1"].status = "pending"
    /\ review_items["d2"].status = "absent"

\* Call p of claim_item commits its transaction, or returns with no row
\* updated, in this step.
Commits(p) == claimPc[p] = "audit" /\ claimPc'[p] = "get"
Refused(p) == claimPc[p] = "update" /\ claimPc'[p] = "returned"

\* C23: a claim_item that finds its item pending commits status=in_review,
\* assigned_to=reviewer, claimed_at=now and sla_deadline=now+sla_default
\* (now is the time the call took when it began) and appends one
\* start_review entry, and changes nothing else; a claim_item that finds
\* its item not pending, or finds no item, returns None, and no step of it
\* changes a review item, a field or the audit log.
C23_ClaimOrNotAvailable ==
    [][/\ \A p \in Claimers :
            LET a == claimArgs[p] IN
            /\ Commits(p) =>
                  /\ review_items[a.item_id].status = "pending"
                  /\ review_items' = [review_items EXCEPT ![a.item_id] =
                         [@ EXCEPT !.status = "in_review",
                                   !.assigned_to = a.reviewer_id,
                                   !.claimed_at = <<a.now>>,
                                   !.sla_deadline = <<a.now + 24 * 60>>]]
                  /\ audit_log' = Append(audit_log,
                         [item_id |-> a.item_id, action |-> "start_review",
                          actor |-> a.reviewer_id, field_name |-> "none",
                          old_value |-> "none", new_value |-> "none"])
                  /\ extracted_fields' = extracted_fields
            /\ (claimPc[p] = "update" /\ claimPc'[p] # "update") =>
                  (Refused(p) <=> review_items[a.item_id].status # "pending")
            /\ Refused(p) => claimResult'[p] = "None"
            /\ (claimPc[p] = "get" /\ claimPc'[p] = "returned") =>
                  claimResult'[p] = "item"
       /\ (\A p \in Claimers : ~Commits(p)) =>
            /\ review_items' = review_items
            /\ extracted_fields' = extracted_fields
            /\ audit_log' = audit_log]_vars

\* Call 1 claimed the pending d1 for r1; call 2, for the absent d2, got None:
\* d2 is still absent and the log holds the one start_review entry.
C23_Witness ==
    /\ claimPc[1] = "returned" /\ claimResult[1] = "item"
    /\ claimArgs[1].item_id = "d1" /\ claimArgs[1].reviewer_id = "r1"
    /\ review_items["d1"].status = "in_review"
    /\ review_items["d1"].assigned_to = "r1"
    /\ review_items["d1"].sla_deadline = At(1 + SlaDefaultHours * 60)
    /\ claimPc[2] = "returned" /\ claimResult[2] = "None"
    /\ claimArgs[2].item_id = "d2"
    /\ review_items["d2"] = NoItem
    /\ audit_log = <<AuditEntry("d1", "start_review", "r1", "none")>>

\* The corrections of a call that find their field present and unlocked.
Applicable(c) ==
    SelectSeq(c.corrections,
              LAMBDA x : /\ extracted_fields[c.item_id][x[1]].present
                         /\ ~extracted_fields[c.item_id][x[1]].locked)

\* The audit rows a committed call owes: one per applicable correction, with
\* the old and the new value, then the rejection, then the approval.
OwedEntries(c) ==
    [k \in 1..Len(Applicable(c)) |->
        [item_id |-> c.item_id, action |-> "correction",
         actor |-> c.reviewer_id, field_name |-> Applicable(c)[k][1],
         old_value |-> extracted_fields[c.item_id][Applicable(c)[k][1]].value,
         new_value |-> Applicable(c)[k][2]]]
    \o (IF c.action = "reject" /\ c.has_reason
        THEN <<[item_id |-> c.item_id, action |-> "rejection",
                actor |-> c.reviewer_id, field_name |-> "none",
                old_value |-> "none", new_value |-> "reason"]>>
        ELSE <<>>)
    \o (IF c.action = "approve"
        THEN <<[item_id |-> c.item_id, action |-> "approval",
                actor |-> c.reviewer_id, field_name |-> "none",
                old_value |-> "none", new_value |-> "none"]>>
        ELSE <<>>)

\* C24: a submit_review that commits sets the status of its item to approved,
\* corrected or rejected by its action, with completed_at = now; each of its
\* corrections that finds its field present and unlocked sets the value,
\* manually_corrected, corrected_at, corrected_by and locked, and appends a
\* correction entry with the old and the new value; a correction of a
\* locked field changes nothing and appends nothing; approve appends one
\* approval entry, reject with a reason one rejection entry; nothing else
\* changes; and a submit_review in which a statement fails changes nothing.
C24_SubmitAtomic ==
    [][LET c == submitCall' IN
       /\ c.outcome = "committed" =>
            /\ \A i \in ItemIds :
                  review_items'[i] =
                      IF i = c.item_id /\ review_items[i].status # "absent"
                      THEN [review_items[i] EXCEPT
                               !.status = (CASE c.action = "approve" -> "approved"
                                             [] c.action = "correct" -> "corrected"
                                             [] c.action = "reject" -> "rejected"),
                               !.completed_at = <<now>>]
                      ELSE review_items[i]
            /\ \A i \in ItemIds, f \in FieldNames :
                  LET row == extracted_fields[i][f]
                      hits == {k \in DOMAIN c.corrections : c.corrections[k][1] = f}
                  IN  extracted_fields'[i][f] =
                          IF i = c.item_id /\ hits # {} /\ row.present /\ ~row.locked
                          THEN [present |-> TRUE,
                                value |-> c.corrections[CHOOSE k \in hits : TRUE][2],
                                locked |-> TRUE, manually_corrected |-> TRUE,
                                corrected_at |-> <<now>>,
                                corrected_by |-> c.reviewer_id]
                          ELSE row
            /\ audit_log' = audit_log \o OwedEntries(c)
       /\ c.outcome = "raised" =>
            /\ review_items' = review_items
            /\ extracted_fields' = extracted_fields
            /\ audit_log' = audit_log]_vars

\* r1 rejected d1 with a reason and a correction of its unlocked field, then
\* an approval of d1 failed: d1 is rejected with its field locked at v2, the
\* log holds the correction and the rejection, d2 is untouched.
C24_Witness ==
    /\ submitCall.outcome = "raised" /\ submitCall.action = "approve"
    /\ review_items["d2"].status = "in_review"
    /\ review_items["d1"].status = "rejected"
    /\ review_items["d1"].completed_at = At(1)
    /\ extracted_fields["d1"]["f1"] =
           [present |-> TRUE, value |-> "v2", locked |-> TRUE,
            manually_corrected |-> TRUE, corrected_at |-> At(1),
            corrected_by |-> "r1"]
    /\ audit_log =
           <<Valued(AuditEntry("d1", "correction", "r1", "f1"), "v1", "v2"),
             Valued(AuditEntry("d1", "rejection", "r1", "none"), "none", "reason")>>

C26_PendingHasNoDeadline ==
    /\ [](\A i \in ItemIds :
             review_items[i].status = "pending" =>
                 review_items[i].sla_deadline = <<>>)
    /\ [][\A i \in ItemIds :
             (review_items[i].sla_deadline = <<>>
                 /\ review_items'[i].sla_deadline # <<>>) =>
                 /\ review_items[i].status = "pending"
                 /\ review_items'[i].status = "in_review"
                 /\ review_items'[i].claimed_at = <<now>>
                 /\ Len(audit_log') = Len(audit_log) + 1
                 /\ audit_log'[Len(audit_log')].action = "start_review"
                 /\ audit_log'[Len(audit_log')].item_id = i]_vars

\* d1 was claimed at minute 0, its claim expired and was released, and the
\* item was auto-assigned again: it is pending with no deadline.
C26_Witness ==
    /\ review_items["d1"].status = "pending"
    /\ review_items["d1"].assigned_to # "none"
    /\ review_items["d1"].sla_deadline = Null
    /\ Len(audit_log) = 2
    /\ audit_log[1].action = "start_review"
    /\ audit_log[2].action = "auto_assign"

\* C27 as claimed: in every reachable state, those reached by a claim_item
\* and a submit_review running concurrently on one item included, an item
\* whose status is approved, corrected or rejected has completed_at set, and
\* completed_at is not earlier than claimed_at when claimed_at is set.
C27_CompletedAfterClaimed ==
    \A i \in ItemIds :
        review_items[i].status \in {"approved", "corrected", "rejected"} =>
            /\ review_items[i].completed_at # <<>>
            /\ review_items[i].claimed_at # <<>> =>
                   review_items[i].completed_at[1] >= review_items[i].claimed_at[1]

\* The active load of a reviewer: the pending and in_review items assigned
\* to them.
ActiveLoad(items, r) ==
    Cardinality({i \in ItemIds :
        /\ items[i].status \in {"pending", "in_review"}
        /\ items[i].assigned_to = r})

\* C30 as claimed: whenever auto-assign writes an assignment, under any
\* interleaving with claims, submissions and other auto-assigns, the reviewer
\* it writes is on the roster and has, at the moment of the write, the least
\* active load of the roster; with an empty roster no assignment is started.
C30_AssignsLeastLoaded ==
    [][/\ (assignTx.pc = "picked" /\ assignTx'.pc = "assigned") =>
            /\ \E k \in 1..Len(Roster) : Roster[k] = assignTx.reviewer
            /\ review_items'[assignTx.item_id].assigned_to = assignTx.reviewer
            /\ \A k \in 1..Len(Roster) :
                   ActiveLoad(review_items, assignTx.reviewer)
                       <= ActiveLoad(review_items, Roster[k])
       /\ Len(Roster) = 0 => assignTx' = assignTx /\ review_items' = review_items]_vars

\* No task is queued or running: every task has returned.
Quiescent == \A d \in ItemIds : workerPc[d] = "done"

\* C28 as claimed: in every quiescent state, after runs in which the
\* review-creation step failed or the task was retried included, every row
\* of processed_documents has a review item (one, as document_id is the key
\* of review_items) for the document_id stored in the row.
C28_CachedDocumentHasReviewItem ==
    Quiescent =>
        \A h \in Hashes :
            processed_documents[h].document_id # "none" =>
                review_items[processed_documents[h].document_id].status # "absent"

\* C29 as claimed: the status of a document only moves from queued to
\* processing and from processing to completed, failed or duplicate; a
\* status of completed, failed or duplicate is not changed by any step of a
\* worker, the steps of a retried task included.
C29_StatusOnlyAdvances ==
    [][\A d \in ItemIds :
          documents'[d] # documents[d] =>
              \/ documents[d] = "queued" /\ documents'[d] = "processing"
              \/ /\ documents[d] = "processing"
                 /\ documents'[d] \in {"completed", "failed", "duplicate"}]_vars

\* C31: the audit log is append-only: whatever claim, submission,
\* auto-assign, release of expired claims or re-materialization runs, the log
\* before the step is a prefix of the log after it, so every entry written
\* stays where it is with the content it had.
C31_AuditAppendOnly ==
    [][/\ Len(audit_log') >= Len(audit_log)
       /\ \A k \in 1..Len(audit_log) : audit_log'[k] = audit_log[k]]_vars

\* d1 was materialized and auto-assigned, claimed, and released when its
\* claim expired: the log holds the two entries in the order they were
\* written.
C31_Witness ==
    /\ Len(audit_log) = 2
    /\ audit_log[1].action = "auto_assign"
    /\ audit_log[2].action = "start_review"
    /\ review_items["d1"].status = "pending"
    /\ review_items["d1"].assigned_to = "none"

\* C32: a final path of save_result never holds a partly written file: it
\* is only ever written by the rename of a completely written temporary
\* sibling.  After save_result has returned both final files exist and no
\* temporary file remains.  When writing a format fails, the step that
\* raises removes that format's temporary file and leaves the final paths
\* and the cache as they were, no temporary file remains, a Parquet file
\* exists only next to its JSON file, and the cache row is written only by
\* a call that has renamed both files.
C32_AtomicWrites ==
    /\ [](\A d \in ItemIds :
             /\ \A f \in {"json", "parquet"} :
                    fs[d][<<f, "final">>] \in {"absent", "complete"}
             /\ savePc[d].stage = "returned" =>
                    \A f \in {"json", "parquet"} :
                        /\ fs[d][<<f, "final">>] = "complete"
                        /\ fs[d][<<f, "tmp">>] = "absent"
             /\ savePc[d].stage = "raised" =>
                    \A f \in {"json", "parquet"} : fs[d][<<f, "tmp">>] = "absent"
             /\ fs[d][<<"parquet", "final">>] = "complete" =>
                    fs[d][<<"json", "final">>] = "complete")
    /\ [][\A d \in ItemIds :
             /\ \A f \in {"json", "parquet"} :
                    fs'[d][<<f, "final">>] # fs[d][<<f, "final">>] =>
                        /\ fs[d][<<f, "tmp">>] = "complete"
                        /\ fs'[d][<<f, "final">>] = "complete"
                        /\ fs'[d][<<f, "tmp">>] = "absent"
             /\ (savePc'[d].stage = "raised" /\ savePc[d].stage # "raised") =>
                    /\ \A f \in {"json", "parquet"} :
                           fs'[d][<<f, "final">>] = fs[d][<<f, "final">>]
                    /\ processed_documents' = processed_documents
             /\ processed_documents' # processed_documents =>
                    \E e \in ItemIds :
                        /\ savePc[e].stage = "cache"
                        /\ savePc'[e].stage = "returned"
                        /\ \A f \in {"json", "parquet"} :
                               fs[e][<<f, "final">>] = "complete"]_vars

\* The save of d1 returned with both files written and the cache row of its
\* hash; the save of d2 failed while writing its Parquet file: its JSON file
\* exists, its Parquet file and its cache row do not, and no temporary file
\* is left.
C32_Witness ==
    /\ savePc["d1"] = SaveAt("none", "returned")
    /\ fs["d1"][FinalPath("json")] = "complete"
    /\ fs["d1"][FinalPath("parquet")] = "complete"
    /\ processed_documents[content["d1"]].document_id = "d1"
    /\ savePc["d2"] = SaveAt("parquet", "raised")
    /\ fs["d2"][FinalPath("json")] = "complete"
    /\ fs["d2"][FinalPath("parquet")] = "absent"
    /\ fs["d2"][Mkstemp("parquet")] = "absent"
    /\ content["d2"] # content["d1"]
    /\ processed_documents[content["d2"]] = NoRow

\* C33 as claimed: the docs_per_hour that the current metrics report, and
\* that check_slas evaluates, is the number of events recorded in the last
\* 3600 seconds divided by the window length in hours (here in tenths of a
\* document per hour), and the window then holds no event older than that.
C33_ThroughputFromWindow ==
    [][monReport'.op \in {"get_dashboard_metrics", "check_slas"} =>
          LET recent == {k \in 1..Len(monReport.events) :
                            monReport.events[k] >= monClock - 2}
          IN  /\ monReport'.docs_per_hour = 10 * Cardinality(recent)
              /\ \A k \in 1..Len(mon'.processing_window) :
                     mon'.processing_window[k] >= monClock - 2]_vars

\* The correction entries written for a field of an item.
CorrectionsOf(i, f) ==
    SelectSeq(audit_log, LAMBDA e : /\ e.action = "correction"
                                    /\ e.item_id = i /\ e.field_name = f)

\* C34: when two submit_review transactions each carry a correction for the
\* same unlocked field of the same item, the field ends locked with the value
\* of the correction applied first: no step changes the value of a locked
\* field, and a field never has more than one correction entry, whose new
\* value and actor are the field's value and corrected_by, however the two
\* transactions' statements interleave.
C34_FirstCorrectionWins ==
    /\ [](\A i \in ItemIds, f \in FieldNames :
             /\ Len(CorrectionsOf(i, f)) <= 1
             /\ extracted_fields[i][f].locked =>
                    /\ Len(CorrectionsOf(i, f)) = 1
                    /\ CorrectionsOf(i, f)[1].new_value = extracted_fields[i][f].value
                    /\ CorrectionsOf(i, f)[1].actor = extracted_fields[i][f].corrected_by)
    /\ [][\A i \in ItemIds, f \in FieldNames :
             extracted_fields[i][f].locked =>
                 extracted_fields'[i][f] = extracted_fields[i][f]]_vars

\* Both transactions corrected f1 of d1 and have returned: the field is
\* locked with v2, the value of r2, whose transaction updated the item first;
\* the correction to v1 of r1 was skipped and the log holds one entry.
C34_Witness ==
    /\ \A p \in Submitters :
          subTx[p].pc = "returned" /\ subTx[p].item_id = "d1"
    /\ subTx[1].value = "v1" /\ subTx[2].value = "v2"
    /\ subTx[1].now = 0 /\ subTx[2].now = 1
    /\ extracted_fields["d1"]["f1"].locked
    /\ extracted_fields["d1"]["f1"].value = "v2"
    /\ extracted_fields["d1"]["f1"].corrected_by = "r2"
    /\ audit_log = <<Valued(AuditEntry("d1", "correction", "r2", "f1"), "v1", "v2")>>

\* C35 as claimed: of two distinct documents with identical bytes, also when
\* their workers overlap (each looks the cache up before the other has
\* written its row), at most one gets a review item and at most one ends
\* completed; the cache holds one row for the hash, naming one of them.
C35_OneReviewItemPerContent ==
    \A d \in ItemIds, e \in ItemIds :
        (d # e /\ content[d] = content[e]) =>
            /\ ~(review_items[d].status # "absent" /\ review_items[e].status # "absent")
            /\ ~(documents[d] = "completed" /\ documents[e] = "completed")

C39_AuditOnlyWhenAssigned ==
    [][(/\ Len(audit_log') = Len(audit_log) + 1
        /\ audit_log'[Len(audit_log')].action = "auto_assign") =>
          LET e == audit_log'[Len(audit_log')] IN
          /\ review_items[e.item_id].status = "pending"
          /\ review_items'[e.item_id].assigned_to = e.actor]_vars

\* The steps that are inside async with self._semaphore.
InsideSemaphore == {s \in StepIds : stepPc[s] \in {"limiter", "fn", "backoff"}}

\* C38: a step with a registered limiter consumes exactly one token per
\* execution: it takes it once, before its first attempt, while it holds its
\* concurrency permit; a retry takes no further token; the permit is held
\* while the step waits for the token and through every backoff sleep, until
\* the step is terminal.
C38_OneTokenPerExecution ==
    /\ [](/\ sem = max_concurrency - Cardinality(InsideSemaphore)
          /\ \A s \in StepIds :
                /\ s \in InsideSemaphore => permitsTaken[s] = 1
                /\ (HasLimiter(s) /\ fnCalls[s] >= 1) => tokensTaken[s] = 1
                /\ stepPc[s] = "limiter" => tokensTaken[s] = 0)
    /\ [][\A s \in StepIds :
            /\ tokensTaken'[s] # tokensTaken[s] =>
                  /\ HasLimiter(s)
                  /\ stepPc[s] = "limiter" /\ fnCalls[s] = 0
                  /\ tokensTaken'[s] = tokensTaken[s] + 1
                  /\ \E refill \in 0..Burst : tokens' = Refilled(refill) - 1
                  /\ sem' = sem
            /\ (stepPc[s] = "fn" /\ stepPc'[s] = "backoff") =>
                  (sem' = sem /\ tokens' = tokens)
            /\ (stepPc[s] = "backoff" /\ stepPc'[s] = "fn") =>
                  /\ fnCalls'[s] = fnCalls[s] + 1
                  /\ sem' = sem /\ tokens' = tokens
                  /\ tokensTaken' = tokensTaken]_vars

\* A rate-limited step is in its second attempt, after one backoff sleep,
\* with its permit and the one token it took.
C38_Witness ==
    \E s \in StepIds :
        /\ HasLimiter(s) /\ stepPc[s] = "fn"
        /\ fnCalls[s] = 2 /\ sleeps[s] = 1
        /\ tokensTaken[s] = 1 /\ permitsTaken[s] = 1
        /\ sem = max_concurrency - Cardinality(InsideSemaphore)

\* C37: in the standard DAG, once extract has ended FAILED: save_parquet,
\* save_json and record_metrics are never launched and end SKIPPED with
\* "Dependency failed"; create_review, whose dependencies are SKIPPED, is
\* launched and, when execute() returns, has ended FAILED after all its
\* attempts; no output file, cache row or review item is written; and the
\* task marks the document failed.
C37_ExtractFailureCascade ==
    stdResults["extract"].status = "failed" =>
        /\ \A s \in {"save_parquet", "save_json", "record_metrics"} :
              /\ stdStepPc[s] = "idle"
              /\ (stdLayerIdx > 2 \/ (stdLayerIdx = 2 /\ stdPc = "gather")) =>
                    stdResults[s] = StepResult("skipped", "Dependency failed", 0)
        /\ stdPc \in {"returned", "done"} =>
              /\ stdStepPc["create_review"] = "done"
              /\ stdResults["create_review"].status = "failed"
              /\ stdAttempt["create_review"] = StdMaxRetries["create_review"]
              /\ ~stdSuccess
        /\ stdEffects.files = {}
        /\ ~stdEffects.cache_row
        /\ ~stdEffects.review_item
        /\ stdPc = "done" => stdEffects.document = "failed"

\* The task is over after extract failed on every attempt: create_review was
\* launched and failed, the three other steps were skipped, and the document
\* is marked failed.
C37_Witness ==
    /\ stdPc = "done"
    /\ stdResults["extract"].status = "failed"
    /\ stdAttempt["extract"] = StdMaxRetries["extract"]
    /\ stdResults["save_json"].error = "Dependency failed"
    /\ stdResults["create_review"].status = "failed"
    /\ stdEffects.document = "failed"

\* C40: execute() called with a valid graph eventually returns with every
\* step in a terminal status; a coroutine that leaves the semaphore's block,
\* by completing or by failing, gives its permit back, and when execute() has
\* returned every permit is back and no coroutine is left waiting.
C40_ExecuteTerminates ==
    /\ (execPc = "idle" /\ Validate(dag) = <<>>) ~>
          (/\ execPc = "returned"
           /\ \A s \in StepSet(dag) : results[s].status \in Terminal)
    /\ [](execPc = "returned" =>
             /\ sem = max_concurrency
             /\ \A s \in StepIds : stepPc[s] \in {"idle", "done"})
    /\ [][\A s \in StepIds :
            (stepPc[s] \in {"limiter", "fn", "backoff"} /\ stepPc'[s] = "done") =>
                sem' = sem + 1]_vars

\* execute() has returned from a graph whose steps b and c shared a layer and
\* the one permit of the semaphore: both invoked fn, b ended FAILED, and the
\* permit is back.
C40_Witness ==
    /\ execPc = "returned"
    /\ max_concurrency = 1 /\ sem = 1
    /\ \E k \in DOMAIN layers : {"b", "c"} \subseteq Range(layers[k])
    /\ fnCalls["b"] >= 1 /\ fnCalls["c"] >= 1
    /\ results["b"].status = "failed"
    /\ results["c"].status = "completed"

(***************************************************************************)
(* Properties of the circuit breaker.                                      *)
(***************************************************************************)
\* C18: a CLOSED breaker moves to OPEN exactly in the step that brings the
\* consecutive failures (those recorded since the last recorded success and
\* since the breaker last closed) to failure_threshold; a success recorded
\* while CLOSED leaves the failure counter at 0; and in every CLOSED state
\* the failure counter equals the consecutive failures and is below
\* failure_threshold.
C18_OpensAtThreshold ==
    [][/\ breaker.state = "closed" =>
            /\ breaker'.state \in {"closed", "open"}
            /\ (breaker'.state = "open") <=>
                   (consecutiveFailures' >= breaker.failure_threshold)
            /\ (cbLast'.op = "record_success" /\ callPc' # callPc) =>
                   (breaker'.state = "closed" /\ breaker'.failure_count = 0)
       /\ breaker'.state = "closed" =>
            /\ breaker'.failure_count = consecutiveFailures'
            /\ breaker'.failure_count < breaker'.failure_threshold]_vars

\* With failure_threshold = 2, the second failure in a row of a breaker that
\* was never open before has just opened it.
C18_Witness ==
    /\ breaker.failure_threshold = 2
    /\ breaker.state = "open"
    /\ cbLast.op = "record_failure"
    /\ consecutiveFailures = 2
    /\ monotonic = 0

\* The step is a call of allow_request, or a read of the state property.
IsAllowRequest == cbLast'.op = "allow_request" /\ monotonic' = monotonic
IsStateRead == cbLast'.op = "state" /\ monotonic' = monotonic
RecoveryElapsed ==
    monotonic - breaker.last_failure_time >= RecoveryTimeout

\* C19: allow_request returns True when the breaker is CLOSED; returns False,
\* leaving it OPEN, while it is OPEN and recovery_timeout has not elapsed
\* since the last failure; once it has elapsed, the next allow_request or
\* read of state moves the breaker to HALF_OPEN; and in a half-open period
\* allow_request returns True while fewer than half_open_max_calls calls
\* were admitted in that period and False once that many were.
C19_AdmissionContract ==
    [][/\ IsAllowRequest =>
            /\ breaker.state = "closed" =>
                   (cbLast'.result = "True" /\ breaker'.state = "closed")
            /\ (breaker.state = "open" /\ ~RecoveryElapsed) =>
                   (cbLast'.result = "False" /\ breaker'.state = "open")
            /\ (breaker.state = "open" /\ RecoveryElapsed) =>
                   /\ breaker'.state = "half_open"
                   /\ cbLast'.result = "True"
                   /\ periodAdmits' = 1
            /\ breaker.state = "half_open" =>
                   /\ breaker'.state = "half_open"
                   /\ (cbLast'.result = "True") <=>
                          (periodAdmits < breaker.half_open_max_calls)
                   /\ cbLast'.result \in {"True", "False"}
       /\ IsStateRead =>
            /\ (breaker.state = "open" /\ RecoveryElapsed) =>
                   (breaker'.state = "half_open" /\ periodAdmits' = 0)
            /\ ~(breaker.state = "open" /\ RecoveryElapsed) =>
                   breaker'.state = breaker.state
            /\ cbLast'.result = breaker'.state
       /\ periodAdmits' <= breaker'.half_open_max_calls]_vars

\* A half-open period with half_open_max_calls = 2 admitted two calls, and
\* the call after them has just been refused.
C19_Witness ==
    /\ breaker.half_open_max_calls = 2
    /\ breaker.state = "half_open"
    /\ periodAdmits = 2
    /\ cbLast = [op |-> "allow_request", result |-> "False"]

\* C20 as claimed: a HALF_OPEN breaker is closed by a recorded success only
\* when half_open_max_calls calls admitted in that half-open period have
\* succeeded, and the failure of a call admitted in the period moves it to
\* OPEN, whatever the interleaving of the guarded calls.
C20_ClosesOnProbeSuccessesOnly ==
    [][breaker.state = "half_open" =>
          /\ (breaker'.state = "closed" /\ cbLast'.op = "record_success") =>
                 probeSuccesses' >= breaker.half_open_max_calls
          /\ (cbLast'.op = "record_failure"
                /\ \E p \in probes : callPc[p] = "inside" /\ callPc'[p] = "idle")
                 => breaker'.state = "open"]_vars

\* The step is "with breaker:" ending for some call, or being entered.
LeavesScope == \E p \in CbCallers : callPc[p] = "inside" /\ callPc'[p] = "idle"
EntersScope == cbLast'.op = "allow_request" /\ monotonic' = monotonic

\* C21: a "with breaker:" whose admission is denied raises CircuitOpenError,
\* does not run its body, and leaves the failure counter, the success
\* counter and the last-failure time as they were; an admitted one whose
\* body returned records one success (no failure is counted, nothing is
\* raised), and one whose body raised records one failure (the failure
\* counter grows by one, the last-failure time is now) and raises the
\* body's exception.
C21_ScopedAcquisition ==
    [][/\ (EntersScope /\ cbLast'.result = "False") =>
            /\ cbScope'.raised = "CircuitOpenError"
            /\ callPc' = callPc
            /\ breaker'.failure_count = breaker.failure_count
            /\ breaker'.success_count = breaker.success_count
            /\ breaker'.last_failure_time = breaker.last_failure_time
       /\ (EntersScope /\ cbLast'.result = "True") =>
            /\ cbScope'.raised = "none"
            /\ \E p \in CbCallers :
                  callPc[p] = "idle" /\ callPc' = [callPc EXCEPT ![p] = "inside"]
       /\ (LeavesScope /\ cbScope'.exc_type = "None") =>
            /\ cbLast'.op = "record_success"
            /\ cbScope'.raised = "none"
            /\ breaker'.failure_count \in {0, breaker.failure_count}
            /\ breaker'.last_failure_time = breaker.last_failure_time
            /\ breaker.state = "half_open" =>
                   \/ breaker'.success_count = breaker.success_count + 1
                   \/ breaker'.state = "closed"
       /\ (LeavesScope /\ cbScope'.exc_type # "None") =>
            /\ cbLast'.op = "record_failure"
            /\ cbScope'.exc_type \in Exceptions
            /\ cbScope'.raised = cbScope'.exc_type
            /\ breaker'.failure_count = breaker.failure_count + 1
            /\ breaker'.last_failure_time = monotonic
            /\ breaker'.success_count = breaker.success_count]_vars

\* A call was refused by an OPEN breaker after the clock moved on from the
\* last failure: CircuitOpenError, with the failure on record untouched.
C21_Witness ==
    /\ breaker.state = "open"
    /\ cbLast = [op |-> "allow_request", result |-> "False"]
    /\ cbScope.raised = "CircuitOpenError"
    /\ breaker.failure_count = 2
    /\ \E p \in CbCallers : callPc[p] = "idle"

(***************************************************************************)
(* Properties of the rate limiter.                                         *)
(***************************************************************************)
\* What the bucket holds at time limNow, before the cap: its tokens and the
\* elapsed time times the rate.
Accrued == bucket.tokens + (limNow - bucket.last_refill) * RatePerTick

\* C22: under every interleaving of acquire calls the token count stays
\* within [0, burst]; an acquire that returns has taken exactly one token
\* from the refilled bucket, and one step returns one acquire at most; and
\* the acquires returned by time t are at most burst + rate * t.
C22_TokenBucket ==
    /\ [](/\ bucket.tokens >= 0
          /\ bucket.tokens <= TokenUnit * Burst
          /\ bucket.tokens + TokenUnit * granted
                 <= TokenUnit * Burst + RatePerTick * bucket.last_refill
          /\ TokenUnit * granted <= TokenUnit * Burst + RatePerTick * limNow)
    /\ [][granted' # granted =>
            /\ granted' = granted + 1
            /\ bucket'.tokens =
                   (IF Accrued > TokenUnit * Burst THEN TokenUnit * Burst
                    ELSE Accrued) - TokenUnit]_vars

\* The acquire after the burst slept 1/rate and has just returned, 1/rate
\* after the limiter was created.
C22_Witness ==
    /\ granted = Burst + 1
    /\ limNow = SleepTicks
    /\ bucket = [tokens |-> 0, last_refill |-> SleepTicks]
    /\ \A p \in Acquirers : acqPc[p] = "idle"
====
